---- MODULE Spec2Model ----
(***************************************************************************)
(* Model of shakenbreak/input.py: the electron-count rule, the bond-       *)
(* distortion + rattle pipeline (apply_rattle_bond_distortions,            *)
(* apply_snb_distortions), the Distortions sweep (apply_distortions) and   *)
(* the metadata store (_write_distortion_metadata).                        *)
(*                                                                         *)
(* Conventions                                                             *)
(*  - Python None is the empty tuple <<>>, a present optional is <<v>>.    *)
(*  - A Python dict is a TLA+ function; an ordered dict whose iteration    *)
(*    order matters is a sequence of [k |-> key, v |-> value] records.     *)
(*  - A raised exception is a string ("" when nothing was raised).         *)
(*  - Lengths are integers in units of 0.01 Angstrom; a supercell is a     *)
(*    periodic ring of circumference RingLength.                           *)
(*  - A float bond-distortion fraction is [neg, mag] with mag in units of  *)
(*    0.0001, so that -0.0 and values below the 3rd decimal exist.         *)
(***************************************************************************)
EXTENDS Integers, Sequences, FiniteSets, TLC

VARIABLES
    call,       \* harness: the function call under evaluation (its arguments, which Python may mutate)
    ret,        \* harness: what the call returned / raised / warned
    self,       \* the Distortions object (fields set by __init__, distortion_metadata)
    sweep,      \* apply_distortions: loop position, locals, distorted_defects_dict, raised exception
    disk,       \* metadata files under output_path: current document and timestamped copies
    clock,      \* wall clock, in minutes
    meta        \* _write_distortion_metadata: the caller's new_metadata object and the warnings

vars == <<call, ret, self, sweep, disk, clock, meta>>

None == <<>>
Some(x) == <<x>>
IsNone(o) == o = <<>>
Get(o) == o[1]

Abs(x) == IF x < 0 THEN -x ELSE x
Range(s) == {s[i] : i \in DOMAIN s}

(***************************************************************************)
(* Bounds of the model                                                     *)
(***************************************************************************)
\* electron counts given to the pure functions range over -MaxCount..MaxCount
MaxCount == 14
\* host ring: NumCells Cd-Te cells, i.e. 2*NumCells bulk sites
NumCells == 7
\* host bond length, 0.01 Angstrom (CdTe: 2.8 Angstrom)
BondLength == 280

(***************************************************************************)
(* Program constants                                                       *)
(***************************************************************************)
OctetHalf == 4
OctetSize == 8
DefaultStdev == 25
SkipEntries == 20
SanityFloor == 100
FallbackDMin == 225

(***************************************************************************)
(* Electron-count model                                                    *)
(***************************************************************************)
Species == {"Cd", "Te", "Se"}
DefectTypes == {"vacancy", "interstitial", "antisite", "substitution"}

\* a slip of sign: the electron count itself is returned, not its negation
calc_number_electrons_unnegated(defect_dict, oxidation_states) ==
    LET ox == [s \in DOMAIN oxidation_states \cup {"Vac"} |->
                  IF s = "Vac" THEN 0 ELSE oxidation_states[s]]
        t == defect_dict.defect_type
        site_specie == IF t = "interstitial" THEN "Vac" ELSE defect_dict.site_specie
        substituting_specie ==
                       CASE t = "vacancy" -> "Vac"
                         [] t = "interstitial" -> defect_dict.site_specie
                         [] t = "antisite" -> defect_dict.substituting_specie
                         [] OTHER -> defect_dict.substitution_specie
    IN  IF t \notin DefectTypes
        THEN [exc |-> "ValueError", value |-> 0, oxidation_states |-> ox]
        ELSE IF substituting_specie \notin DOMAIN ox \/ site_specie \notin DOMAIN ox
        THEN [exc |-> "KeyError", value |-> 0, oxidation_states |-> ox]
        ELSE [exc |-> "", value |-> ox[substituting_specie] - ox[site_specie],
              oxidation_states |-> ox]

\* calc_number_electrons: the returned record carries the exception, the value
\* and the oxidation_states dict as the call leaves it (line 245 writes "Vac").
calc_number_electrons(defect_dict, oxidation_states) ==
    LET ox == [s \in DOMAIN oxidation_states \cup {"Vac"} |->
                  IF s = "Vac" THEN 0 ELSE oxidation_states[s]]
        t == defect_dict.defect_type
        site_specie == CASE t = "vacancy" -> defect_dict.site_specie
                         [] t = "interstitial" -> "Vac"
                         [] OTHER -> defect_dict.site_specie
        substituting_specie ==
                       CASE t = "vacancy" -> "Vac"
                         [] t = "interstitial" -> defect_dict.site_specie
                         [] t = "antisite" -> defect_dict.substituting_specie
                         [] OTHER -> defect_dict.substitution_specie
    IN  IF t \notin DefectTypes
        THEN [exc |-> "ValueError", value |-> 0, oxidation_states |-> ox]
        ELSE IF substituting_specie \notin DOMAIN ox \/ site_specie \notin DOMAIN ox
        THEN [exc |-> "KeyError", value |-> 0, oxidation_states |-> ox]
        ELSE LET num_electrons == ox[substituting_specie] - ox[site_specie]
             IN  [exc |-> "", value |-> -num_electrons, oxidation_states |-> ox]

\* a slip of the branch order: the octet fold-back tested on the signed count
calc_number_neighbours_signed(num_electrons) ==
    LET num_neighbours == IF num_electrons > OctetHalf
                          THEN Abs(OctetSize - Abs(num_electrons))
                          ELSE Abs(num_electrons)
    IN  Abs(num_neighbours)

\* a slip: the count is not folded back at the half octet
calc_number_neighbours_unfolded(num_electrons) == Abs(num_electrons)

calc_number_neighbours(num_electrons) ==
    LET num_neighbours == IF Abs(num_electrons) > OctetHalf
                          THEN Abs(OctetSize - Abs(num_electrons))
                          ELSE Abs(num_electrons)
    IN  Abs(num_neighbours)

(***************************************************************************)
(* Floats: bond-distortion fractions                                       *)
(***************************************************************************)
Float(neg, mag) == [neg |-> neg, mag |-> mag]
\* round(x, ndigits=3) / np.around(x, 3): keeps the sign bit, so -0.0004 -> -0.0
Round3(x) == [neg |-> x.neg, mag |-> ((x.mag + 5) \div 10) * 10]
\* x + 0: IEEE addition turns -0.0 into +0.0 and leaves every other value alone
PlusZero(x) == IF x.mag = 0 THEN [neg |-> FALSE, mag |-> 0] ELSE x
Signed(x) == IF x.neg THEN -x.mag ELSE x.mag
\* distortion_factor = 1 + distortion, in units of 0.0001
Factor(x) == 10000 + Signed(x)

\* labels of trial structures
Label(name) == [name |-> name, neg |-> FALSE, permille |-> 0]
\* shakenbreak.analysis._get_distortion_filename: "Bond_Distortion_<percentage>%",
\* percentage printed with one decimal and with the sign bit of the value
_get_distortion_filename(distortion) ==
    [name |-> "Bond_Distortion", neg |-> distortion.neg,
     permille |-> (distortion.mag + 5) \div 10]

(***************************************************************************)
(* Ordered dicts                                                           *)
(***************************************************************************)
Keys(d) == {d[i].k : i \in DOMAIN d}
KeySeq(d) == [i \in DOMAIN d |-> d[i].k]
Has(d, key) == key \in Keys(d)
Lookup(d, key) == (CHOOSE i \in DOMAIN d : d[i].k = key)
Val(d, key) == d[Lookup(d, key)].v
\* d[key] = value: an existing key keeps its place, a new key goes last
DictSet(d, key, value) ==
    IF Has(d, key) THEN [d EXCEPT ![Lookup(d, key)].v = value]
    ELSE Append(d, [k |-> key, v |-> value])

(***************************************************************************)
(* Structures: periodic ring, positions in 0.01 Angstrom                   *)
(***************************************************************************)
RingLength == 2 * NumCells * BondLength
Site(specie, pos) == [specie |-> specie, pos |-> pos % RingLength]
\* periodic (minimum-image) distance
Dist(p, q) == LET a == (p - q) % RingLength
              IN  IF a <= RingLength - a THEN a ELSE RingLength - a
\* minimum-image displacement vector from ref to p
MinImage(ref, p) == LET a == (p - ref) % RingLength
                    IN  IF 2 * a <= RingLength THEN a ELSE a - RingLength
\* Structure.distance_matrix.flatten(), sorted: entry k (zero-based)
Entries(structure) == (DOMAIN structure) \X (DOMAIN structure)
EntryDist(structure, e) == Dist(structure[e[1]].pos, structure[e[2]].pos)
AtMost(structure, d) ==
    Cardinality({e \in Entries(structure) : EntryDist(structure, e) <= d})
SortedDistance(structure, k) ==
    CHOOSE d \in {EntryDist(structure, e) : e \in Entries(structure)} :
        /\ k < AtMost(structure, d)
        /\ \A c \in {EntryDist(structure, e) : e \in Entries(structure)} :
               c < d => AtMost(structure, c) <= k
HasEntry(structure, k) == k < Len(structure) * Len(structure)

(***************************************************************************)
(* shakenbreak.distortions.distort: neighbour selector + bond distortion   *)
(***************************************************************************)
\* a slip: among candidates at the same distance the last one is taken
NearestLastOfTies(structure, ref, cands) ==
    CHOOSE j \in cands :
        \A i \in cands :
            \/ Dist(ref, structure[j].pos) < Dist(ref, structure[i].pos)
            \/ /\ Dist(ref, structure[j].pos) = Dist(ref, structure[i].pos)
               /\ j >= i

\* the candidate that comes first by (distance to the reference, atom index)
Nearest(structure, ref, cands) ==
    CHOOSE j \in cands :
        \A i \in cands :
            \/ Dist(ref, structure[j].pos) < Dist(ref, structure[i].pos)
            \/ /\ Dist(ref, structure[j].pos) = Dist(ref, structure[i].pos)
               /\ j <= i

\* a slip: the count is tested after a neighbour is taken
RECURSIVE SelectAtLeastOne(_, _, _, _)
SelectAtLeastOne(structure, ref, cands, k) ==
    IF cands = {} \/ k < 0 THEN <<>>
    ELSE <<Nearest(structure, ref, cands)>>
         \o SelectAtLeastOne(structure, ref,
                             cands \ {Nearest(structure, ref, cands)}, k - 1)

\* the set of candidates, whatever the element asked for
CandidatesOfAnySpecies(structure, site_index, distorted_element) ==
    {j \in DOMAIN structure : j \notin Range(site_index)}

\* the first k candidates in that order
RECURSIVE SelectNeighbours(_, _, _, _)
SelectNeighbours(structure, ref, cands, k) ==
    IF cands = {} \/ k <= 0 THEN <<>>
    ELSE <<Nearest(structure, ref, cands)>>
         \o SelectNeighbours(structure, ref,
                             cands \ {Nearest(structure, ref, cands)}, k - 1)

\* new_position = reference + (neighbour_position - reference) * f, along the
\* minimum-image vector v
Scaled(v, distortion_factor) ==
    IF v < 0 THEN -(((-v) * distortion_factor) \div 10000)
    ELSE (v * distortion_factor) \div 10000
Displaced(ref, pos, distortion_factor) ==
    (ref + Scaled(MinImage(ref, pos), distortion_factor)) % RingLength

\* the sites of `structure` that may be distorted
Candidates(structure, site_index, distorted_element) ==
    {j \in DOMAIN structure :
        /\ j \notin Range(site_index)
        /\ IsNone(distorted_element) \/ structure[j].specie = Get(distorted_element)}

DistortResult(structure, ref, chosen, num_nearest_neighbours, distortion_factor, frac_coords, site_index) ==
    [exc |-> "",
     distorted_structure |->
         [j \in DOMAIN structure |->
             IF j \in Range(chosen)
             THEN [structure[j] EXCEPT
                      !.pos = Displaced(ref, structure[j].pos, distortion_factor)]
             ELSE structure[j]],
     undistorted_structure |-> structure,
     num_distorted_neighbours |-> num_nearest_neighbours,
     distorted_atoms |-> [n \in DOMAIN chosen |->
                             [form |-> "tuple", index |-> chosen[n],
                              specie |-> structure[chosen[n]].specie]],
     defect_site_index |-> site_index,
     defect_frac_coords |-> frac_coords]

\* a missing `distorted_element` raises ValueError for every neighbour count,
\* zero included (test_distorted_element_error: range(8))
DistortFrom(structure, ref, cands, num_nearest_neighbours, distortion_factor, frac_coords, site_index, distorted_element) ==
    IF cands = {} /\ ~IsNone(distorted_element)
    THEN [exc |-> "ValueError", distorted_structure |-> structure,
          undistorted_structure |-> structure, num_distorted_neighbours |-> 0,
          distorted_atoms |-> <<>>, defect_site_index |-> None,
          defect_frac_coords |-> None]
    ELSE DistortResult(structure, ref,
                       SelectNeighbours(structure, ref, cands, num_nearest_neighbours),
                       num_nearest_neighbours, distortion_factor,
                       frac_coords, site_index)

\* frac_coords: <<position>> for a defect without a site, else None;
\* site_index: <<one-based index>> of the defect atom, else None
distort(structure, num_nearest_neighbours, distortion_factor, frac_coords, site_index, distorted_element) ==
    DistortFrom(structure,
                IF IsNone(site_index) THEN Get(frac_coords)
                ELSE structure[Get(site_index)].pos,
                Candidates(structure, site_index, distorted_element),
                num_nearest_neighbours, distortion_factor,
                frac_coords, site_index, distorted_element)

(***************************************************************************)
(* shakenbreak.distortions.rattle: constrained Monte-Carlo rattle          *)
(***************************************************************************)
AttemptsFailure == "Exception: exceeded the maximum number of attempts"
KeywordFailure == "TypeError: unexpected keyword argument"
\* `"attempts" in str(e)`
MentionsAttempts(e) == e = AttemptsFailure

\* seed of the random stream when the caller gives none
DefaultSeed == 42
\* the displacements drawn for atom i (zero-based), in the order they are tried
Displacements(seed, i, stdev) ==
    CASE (seed + i) % 3 = 0 -> <<stdev, -stdev, 0>>
      [] (seed + i) % 3 = 1 -> <<-stdev, 0, stdev>>
      [] OTHER -> <<0, stdev, -stdev>>

\* the draws for site n that keep it d_min away from every other site
Fits(sites, n, draws, d_min) ==
    {k \in DOMAIN draws :
        \A j \in DOMAIN sites \ {n} :
            Dist(sites[n].pos + draws[k], sites[j].pos) >= d_min}

Least(S) == CHOOSE k \in S : \A m \in S : k <= m

RECURSIVE RattleFrom(_, _, _, _, _, _)
\* site n placed with the first of its draws that fits, then the sites after it
RattleSite(sites, n, draws, good, stdev, d_min, active, seed) ==
    IF good = {} THEN [exc |-> AttemptsFailure, structure |-> sites]
    ELSE RattleFrom([sites EXCEPT
                        ![n].pos = (sites[n].pos + draws[Least(good)]) % RingLength],
                    n + 1, stdev, d_min, active, seed)

RattleFrom(sites, n, stdev, d_min, active, seed) ==
    IF n > Len(sites) THEN [exc |-> "", structure |-> sites]
    ELSE IF (n - 1) \notin active
    THEN RattleFrom(sites, n + 1, stdev, d_min, active, seed)
    ELSE RattleSite(sites, n, Displacements(seed, n - 1, stdev),
                    Fits(sites, n, Displacements(seed, n - 1, stdev), d_min),
                    stdev, d_min, active, seed)

\* kw: the mc_rattle keyword arguments, [seed, bogus]; active_atoms: None or
\* <<set of zero-based indices>>; None rattles every atom
rattle(structure, stdev, d_min, active_atoms, kw) ==
    IF kw.bogus THEN [exc |-> KeywordFailure, structure |-> structure]
    ELSE RattleFrom(structure, 1, stdev, d_min,
                    IF IsNone(active_atoms) THEN 0 .. (Len(structure) - 1)
                    ELSE Get(active_atoms),
                    IF IsNone(kw.seed) THEN DefaultSeed ELSE Get(kw.seed))

(***************************************************************************)
(* apply_rattle_bond_distortions                                           *)
(***************************************************************************)
Warning(kind, x, y) == [kind |-> kind, x |-> x, y |-> y]
\* one call made to rattle: its arguments and the failure it raised ("" for none)
RattleCall(structure, d_min, active_atoms, exc) ==
    [structure |-> structure, d_min |-> d_min, active_atoms |-> active_atoms,
     exc |-> exc]

\* `if not d_min`: None and 0 both ask for the automatic value
Falsy(o) == IsNone(o) \/ Get(o) = 0

\* d_min = 0.8 * bond, replaced by 2.25 Angstrom when below 1 Angstrom
FlooredDMin(bond) ==
    IF 4 * bond < 5 * SanityFloor
    THEN [exc |-> "", d_min |-> FallbackDMin,
          warnings |-> <<Warning("bond_length", bond, FallbackDMin)>>]
    ELSE [exc |-> "", d_min |-> (4 * bond) \div 5, warnings |-> <<>>]

\* 0.8 * sorted_distances[len(defect_supercell) + 20], with the floor
DefaultDMin(defect_supercell) ==
    IF ~HasEntry(defect_supercell, Len(defect_supercell) + SkipEntries)
    THEN [exc |-> "IndexError", d_min |-> 0, warnings |-> <<>>]
    ELSE FlooredDMin(SortedDistance(defect_supercell,
                                    Len(defect_supercell) + SkipEntries))

\* the d_min in effect for a call given `d_min`
EffectiveDMin(d_min, defect_supercell) ==
    IF Falsy(d_min) THEN DefaultDMin(defect_supercell)
    ELSE [exc |-> "", d_min |-> Get(d_min), warnings |-> <<>>]

\* a slip: the one-based (VASP) indices are used as they are
DefaultActiveAtomsOneBased(structure, bond_distorted_defect) ==
    (0 .. (Len(structure) - 1))
    \ ({bond_distorted_defect.distorted_atoms[n].index :
            n \in DOMAIN bond_distorted_defect.distorted_atoms}
       \cup Range(bond_distorted_defect.defect_site_index))

\* every site except the bond-distorted neighbours and the defect's own atom
DefaultActiveAtoms(structure, bond_distorted_defect) ==
    (0 .. (Len(structure) - 1))
    \ ({bond_distorted_defect.distorted_atoms[n].index - 1 :
            n \in DOMAIN bond_distorted_defect.distorted_atoms}
       \cup {i - 1 : i \in Range(bond_distorted_defect.defect_site_index)})

\* sorted_distances[len(distorted_defect_struc)] + 2 * stdev
ReducedDMin(distorted_defect_struc, stdev) ==
    SortedDistance(distorted_defect_struc, Len(distorted_defect_struc)) + 2 * stdev

\* a slip: the handler retries whatever the failure says
RetriesOnAny(e) == TRUE
\* the `except` branch retries for a failure whose text mentions attempts
Retries(e) == MentionsAttempts(e)

\* a slip: the rattled structure is dropped, the bond-distorted one handed back
RattleOutcomeUnrattled(exc, bond_distorted_defect, struct, warnings, calls) ==
    [exc |-> exc, bond_distorted_defect |-> bond_distorted_defect,
     warnings |-> warnings, rattle_calls |-> calls]

\* what apply_rattle_bond_distortions hands back: the exception, the dict
\* with the structure it holds, the warnings and the calls made to rattle
RattleOutcome(exc, bond_distorted_defect, struct, warnings, calls) ==
    [exc |-> exc,
     bond_distorted_defect |->
         [bond_distorted_defect EXCEPT !.distorted_structure = struct],
     warnings |-> warnings, rattle_calls |-> calls]

\* lines 425-436: the second rattle has run
AfterRetry(b, auto, active, first, reduced_d_min, second) ==
    IF second.exc # ""
    THEN RattleOutcome(second.exc, b, b.distorted_structure, auto.warnings,
                       <<RattleCall(b.distorted_structure, auto.d_min, active,
                                    first.exc),
                         RattleCall(b.distorted_structure, reduced_d_min, active,
                                    second.exc)>>)
    ELSE RattleOutcome("", b, second.structure,
                       Append(auto.warnings,
                              Warning("d_min", auto.d_min, reduced_d_min)),
                       <<RattleCall(b.distorted_structure, auto.d_min, active,
                                    first.exc),
                         RattleCall(b.distorted_structure, reduced_d_min, active,
                                    "")>>)

\* lines 422-431: the relaxed d_min and the second rattle
Retry(b, auto, active, stdev, kw, first, reduced_d_min) ==
    AfterRetry(b, auto, active, first, reduced_d_min,
               rattle(b.distorted_structure, stdev, reduced_d_min, Some(active), kw))

\* the one call made so far
FirstCall(b, auto, active, first) ==
    <<RattleCall(b.distorted_structure, auto.d_min, active, first.exc)>>

\* lines 412-438: the first rattle has run
AfterRattle(b, auto, active, stdev, kw, first) ==
    IF first.exc = ""
    THEN RattleOutcome("", b, first.structure, auto.warnings,
                       FirstCall(b, auto, active, first))
    ELSE IF ~Retries(first.exc)
    THEN RattleOutcome(first.exc, b, b.distorted_structure, auto.warnings,
                       FirstCall(b, auto, active, first))
    ELSE IF ~HasEntry(b.distorted_structure, Len(b.distorted_structure))
    THEN RattleOutcome("IndexError", b, b.distorted_structure, auto.warnings,
                       FirstCall(b, auto, active, first))
    ELSE Retry(b, auto, active, stdev, kw, first,
               ReducedDMin(b.distorted_structure, stdev))

\* lines 378-419: d_min and the active atoms are known, the first rattle runs
RattleDistorted(b, auto, active, stdev, kw) ==
    IF auto.exc # ""
    THEN RattleOutcome(auto.exc, b, b.distorted_structure, <<>>, <<>>)
    ELSE AfterRattle(b, auto, active, stdev, kw,
                     rattle(b.distorted_structure, stdev, auto.d_min, Some(active), kw))

\* lines 378-410: b is what distort returned
AfterDistort(b, structure, stdev, d_min, active_atoms, kw) ==
    IF b.exc # ""
    THEN RattleOutcome(b.exc, b, b.distorted_structure, <<>>, <<>>)
    ELSE RattleDistorted(b, EffectiveDMin(d_min, structure),
                         IF IsNone(active_atoms) THEN DefaultActiveAtoms(structure, b)
                         ELSE Get(active_atoms),
                         stdev, kw)

apply_rattle_bond_distortions(defect_dict, num_nearest_neighbours, distortion_factor, stdev, d_min, active_atoms, distorted_element, kw) ==
    AfterDistort(
        IF defect_dict.defect_type = "vacancy"
        THEN distort(defect_dict.supercell.structure, num_nearest_neighbours,
                     distortion_factor,
                     Some(defect_dict.bulk_supercell_site.frac_coords), None,
                     distorted_element)
        ELSE distort(defect_dict.supercell.structure, num_nearest_neighbours,
                     distortion_factor, None,
                     Some(Len(defect_dict.supercell.structure)), distorted_element),
        defect_dict.supercell.structure, stdev, d_min, active_atoms, kw)

(***************************************************************************)
(* apply_snb_distortions                                                   *)
(***************************************************************************)
Parameters(defect_dict, num_nearest_neighbours, distorted_atoms, defect_site_index) ==
    [unique_site |-> defect_dict.bulk_supercell_site.frac_coords,
     num_distorted_neighbours |-> num_nearest_neighbours,
     distorted_atoms |-> distorted_atoms,
     defect_site_index |-> defect_site_index]

\* the keyword arguments that reach rattle / mc_rattle
RattleKw(kwargs) == [seed |-> kwargs.seed, bogus |-> kwargs.bogus]

\* the warnings and rattle calls of one step, added to the running result
Logged(acc, r) ==
    [acc EXCEPT !.warnings = acc.warnings \o r.warnings,
                !.rattle_calls = acc.rattle_calls \o r.rattle_calls]

\* lines 508-521: the trial structure of `distortion` stored under its label
Stored(acc, distortion, r, defect_dict, num_nearest_neighbours) ==
    [Logged(acc, r) EXCEPT
        !.distortions = DictSet(acc.distortions, _get_distortion_filename(distortion),
                                r.bond_distorted_defect.distorted_structure),
        !.distortion_parameters =
            Some(Parameters(defect_dict, num_nearest_neighbours,
                            Some(r.bond_distorted_defect.distorted_atoms),
                            r.bond_distorted_defect.defect_site_index))]

RECURSIVE SnbLoop(_, _, _, _, _, _, _, _, _)
\* one pass of the loop body, r being what apply_rattle_bond_distortions returned
SnbStep(acc, n, distortion, r, defect_dict, num_nearest_neighbours, bond_distortions, stdev, d_min, distorted_element, kwargs) ==
    IF r.exc # "" THEN [Logged(acc, r) EXCEPT !.exc = r.exc]
    ELSE SnbLoop(Stored(acc, distortion, r, defect_dict, num_nearest_neighbours),
                 n + 1, defect_dict, num_nearest_neighbours, bond_distortions,
                 stdev, d_min, distorted_element, kwargs)

\* a slip: the `+ 0` is left out, the sign bit of -0.0 stays
RoundedOnly(distortion) == Round3(distortion)

\* round(distortion, ndigits=3) + 0
Normalised(distortion) == PlusZero(Round3(distortion))

\* the loop over bond_distortions (lines 491-521), from entry n on
SnbLoop(acc, n, defect_dict, num_nearest_neighbours, bond_distortions, stdev, d_min, distorted_element, kwargs) ==
    IF n > Len(bond_distortions) THEN acc
    ELSE SnbStep(acc, n, Normalised(bond_distortions[n]),
                 apply_rattle_bond_distortions(
                     defect_dict, num_nearest_neighbours,
                     Factor(Normalised(bond_distortions[n])), stdev, d_min,
                     kwargs.active_atoms, distorted_element, RattleKw(kwargs)),
                 defect_dict, num_nearest_neighbours, bond_distortions,
                 stdev, d_min, distorted_element, kwargs)

\* a slip: the zero-neighbour branch is entered for one neighbour as well
OnlyRattlesUpToOne(num_nearest_neighbours) == num_nearest_neighbours <= 1
\* `num_nearest_neighbours != 0` selects bond distortion, 0 the plain rattle
OnlyRattles(num_nearest_neighbours) == num_nearest_neighbours = 0

EmptyResult(defect_dict) ==
    [exc |-> "", Unperturbed |-> defect_dict, distortions |-> <<>>,
     distortion_parameters |-> None, warnings |-> <<>>, rattle_calls |-> <<>>]

\* lines 547-559: the whole structure has been rattled
AfterPlainRattle(acc, defect_dict, num_nearest_neighbours, auto, active, perturbed) ==
    IF perturbed.exc # ""
    THEN [acc EXCEPT !.exc = perturbed.exc, !.warnings = auto.warnings,
                     !.rattle_calls = <<RattleCall(defect_dict.supercell.structure,
                                                  auto.d_min, active,
                                                  perturbed.exc)>>]
    ELSE [acc EXCEPT
             !.distortions = <<[k |-> Label("Rattled"), v |-> perturbed.structure]>>,
             !.distortion_parameters =
                 Some(Parameters(defect_dict, num_nearest_neighbours, None,
                                 IF defect_dict.defect_type = "vacancy" THEN None
                                 ELSE Some(Len(defect_dict.supercell.structure)))),
             !.warnings = auto.warnings,
             !.rattle_calls = <<RattleCall(defect_dict.supercell.structure,
                                          auto.d_min, active, "")>>]

\* lines 523-559: rattle(structure, stdev=stdev, d_min=d_min, **kwargs)
PlainRattle(acc, defect_dict, num_nearest_neighbours, stdev, auto, kwargs) ==
    IF auto.exc # "" THEN [acc EXCEPT !.exc = auto.exc]
    ELSE AfterPlainRattle(acc, defect_dict, num_nearest_neighbours, auto,
                          IF IsNone(kwargs.active_atoms)
                          THEN 0 .. (Len(defect_dict.supercell.structure) - 1)
                          ELSE Get(kwargs.active_atoms),
                          rattle(defect_dict.supercell.structure, stdev, auto.d_min,
                                 kwargs.active_atoms, RattleKw(kwargs)))

apply_snb_distortions(defect_dict, num_nearest_neighbours, bond_distortions, stdev, d_min, distorted_element, kwargs) ==
    IF ~OnlyRattles(num_nearest_neighbours)
    THEN SnbLoop(EmptyResult(defect_dict), 1, defect_dict, num_nearest_neighbours,
                 bond_distortions, stdev, d_min, distorted_element, kwargs)
    ELSE PlainRattle(EmptyResult(defect_dict), defect_dict, num_nearest_neighbours,
                     stdev, EffectiveDMin(d_min, defect_dict.supercell.structure),
                     kwargs)

(***************************************************************************)
(* Defect entries of the host ring (doped's ChargedDefectsStructures       *)
(* format: the atom of a defect that has one is the last site)             *)
(***************************************************************************)
Bulk == [i \in 1 .. (2 * NumCells) |->
            Site(IF i % 2 = 1 THEN "Cd" ELSE "Te", (i - 1) * BondLength)]
Without(structure, b) ==
    [i \in 1 .. (Len(structure) - 1) |-> IF i < b THEN structure[i] ELSE structure[i + 1]]

DefectDict(name, defect_type, site_specie, other_specie, structure, pos) ==
    [name |-> name, defect_type |-> defect_type, site_specie |-> site_specie,
     substituting_specie |-> IF defect_type = "antisite" THEN other_specie ELSE "",
     substitution_specie |-> IF defect_type = "substitution" THEN other_specie ELSE "",
     charges |-> <<0>>,
     supercell |-> [size |-> NumCells, structure |-> structure],
     bulk_supercell_site |-> [frac_coords |-> pos],
     unique_site |-> pos, site_multiplicity |-> NumCells]

\* a vacancy on bulk site b
Vacancy(name, b) ==
    DefectDict(name, "vacancy", Bulk[b].specie, "", Without(Bulk, b), Bulk[b].pos)
\* an atom of `specie` put between bulk sites 1 and 2
Interstitial(name, specie) ==
    DefectDict(name, "interstitial", specie, "",
               Append(Bulk, Site(specie, BondLength \div 2)), BondLength \div 2)
\* bulk site b replaced by an atom of `specie`
Replaced(name, defect_type, b, specie) ==
    DefectDict(name, defect_type, Bulk[b].specie, specie,
               Append(Without(Bulk, b), Site(specie, Bulk[b].pos)), Bulk[b].pos)

DefectMenu ==
    {Vacancy("vac_1_Cd", 1), Vacancy("vac_2_Te", 2),
     Replaced("as_1_Cd_on_Te", "antisite", 2, "Cd"),
     Replaced("as_1_Te_on_Cd", "antisite", 1, "Te"),
     Replaced("sub_1_Se_on_Te", "substitution", 2, "Se"),
     Interstitial("Int_Cd_1", "Cd"), Interstitial("Int_Te_1", "Te"),
     [Vacancy("cluster_1_Cd", 1) EXCEPT !.defect_type = "cluster"]}
DefectNamed(name) == CHOOSE d \in DefectMenu : d.name = name
\* the entries of one of the four defect kinds
KnownDefects == {d \in DefectMenu : d.defect_type \in DefectTypes}

(***************************************************************************)
(* Calls of the module-level functions                                     *)
(***************************************************************************)
\* oxidation states given to calc_number_electrons range over -MaxOx..MaxOx
MaxOx == 2
\* neighbour counts given to the distortion functions range over 0..MaxNeighbours
MaxNeighbours == 3

NoKw == [seed |-> None, bogus |-> FALSE, active_atoms |-> None]
Idle == [fn |-> "none"]

ElectronDefects ==
    {DefectDict("defect", t, site, other, Bulk, 0) :
        t \in DefectTypes \cup {"cluster"}, site \in Species, other \in Species}
OxidationMaps ==
    [Species -> (-MaxOx) .. MaxOx] \cup [{"Cd", "Te"} -> (-MaxOx) .. MaxOx]
CdTe == [s \in Species |-> IF s = "Cd" THEN 2 ELSE -2]

\* bond-distortion fractions, in units of 0.0001
Fractions == {Float(TRUE, 6000), Float(TRUE, 5000), Float(FALSE, 0), Float(FALSE, 5000),
              Float(FALSE, 10000)}
BondDistortionLists ==
    {<<Float(TRUE, 5000)>>,
     <<Float(TRUE, 6000), Float(FALSE, 0), Float(FALSE, 5000)>>,
     <<Float(TRUE, 3000), Float(TRUE, 4), Float(FALSE, 3000), Float(FALSE, 2996)>>,
     <<Float(TRUE, 0), Float(TRUE, 4), Float(TRUE, 1000)>>,
     <<>>}
DMinChoices == {None, Some(0), Some(150), Some(400)}
ActiveChoices == {None, Some({0, 1, 2})}
ElementChoices == {None, Some("Te"), Some("Se")}
SeedChoices == {None, Some(1)}

NeighbourCalls ==
    {[fn |-> "calc_number_neighbours", num_electrons |-> n] :
        n \in (-MaxCount) .. MaxCount}
ElectronCalls ==
    {[fn |-> "calc_number_electrons", defect_dict |-> d, oxidation_states |-> ox] :
        d \in ElectronDefects, ox \in OxidationMaps}
    \cup {[fn |-> "calc_number_electrons", defect_dict |-> d, oxidation_states |-> CdTe] :
             d \in DefectMenu}
RattleBondCalls ==
    {[fn |-> "apply_rattle_bond_distortions", defect_dict |-> d,
      num_nearest_neighbours |-> nn, distortion_factor |-> Factor(x),
      stdev |-> DefaultStdev, d_min |-> dm, active_atoms |-> aa,
      distorted_element |-> el, kw |-> [seed |-> sd, bogus |-> bg]] :
        d \in KnownDefects, nn \in 0 .. MaxNeighbours, x \in Fractions,
        dm \in DMinChoices, aa \in ActiveChoices, el \in ElementChoices,
        sd \in SeedChoices, bg \in BOOLEAN}
SnbCalls ==
    {[fn |-> "apply_snb_distortions", defect_dict |-> d,
      num_nearest_neighbours |-> nn, bond_distortions |-> bd,
      stdev |-> DefaultStdev, d_min |-> dm, distorted_element |-> el,
      kwargs |-> [seed |-> sd, bogus |-> bg, active_atoms |-> None]] :
        d \in KnownDefects, nn \in 0 .. MaxNeighbours, bd \in BondDistortionLists,
        dm \in {None, Some(150)}, el \in {None, Some("Se")},
        sd \in SeedChoices, bg \in BOOLEAN}

\* where distort is asked to look from: the vacant site, half a bond beside it,
\* or an atom of the structure (first or last)
References(d) ==
    {[frac_coords |-> Some(d.bulk_supercell_site.frac_coords), site_index |-> None],
     [frac_coords |-> Some((d.bulk_supercell_site.frac_coords + BondLength \div 2)
                               % RingLength),
      site_index |-> None],
     [frac_coords |-> None, site_index |-> Some(1)],
     [frac_coords |-> None, site_index |-> Some(Len(d.supercell.structure))]}
DistortCalls ==
    UNION {{[fn |-> "distort", structure |-> d.supercell.structure,
             num_nearest_neighbours |-> nn, distortion_factor |-> Factor(x),
             frac_coords |-> r.frac_coords, site_index |-> r.site_index,
             distorted_element |-> el] :
               nn \in 0 .. MaxNeighbours, x \in Fractions,
               r \in References(d), el \in ElementChoices} :
           d \in KnownDefects}

CallDistort ==
    /\ call.fn = "distort" /\ IsNone(ret)
    /\ ret' = Some(distort(call.structure, call.num_nearest_neighbours,
                           call.distortion_factor, call.frac_coords,
                           call.site_index, call.distorted_element))
    /\ UNCHANGED <<call, self, sweep, disk, clock, meta>>

CallCalcNumberNeighbours ==
    /\ call.fn = "calc_number_neighbours" /\ IsNone(ret)
    /\ ret' = Some([exc |-> "", value |-> calc_number_neighbours(call.num_electrons)])
    /\ UNCHANGED <<call, self, sweep, disk, clock, meta>>

CallCalcNumberElectrons ==
    /\ call.fn = "calc_number_electrons" /\ IsNone(ret)
    /\ LET r == calc_number_electrons(call.defect_dict, call.oxidation_states)
       IN  /\ ret' = Some([exc |-> r.exc, value |-> r.value])
           /\ call' = [call EXCEPT !.oxidation_states = r.oxidation_states]
    /\ UNCHANGED <<self, sweep, disk, clock, meta>>

CallApplyRattleBondDistortions ==
    /\ call.fn = "apply_rattle_bond_distortions" /\ IsNone(ret)
    /\ ret' = Some(apply_rattle_bond_distortions(
                       call.defect_dict, call.num_nearest_neighbours,
                       call.distortion_factor, call.stdev, call.d_min,
                       call.active_atoms, call.distorted_element, call.kw))
    /\ UNCHANGED <<call, self, sweep, disk, clock, meta>>

CallApplySnbDistortions ==
    /\ call.fn = "apply_snb_distortions" /\ IsNone(ret)
    /\ ret' = Some(apply_snb_distortions(
                       call.defect_dict, call.num_nearest_neighbours,
                       call.bond_distortions, call.stdev, call.d_min,
                       call.distorted_element, call.kwargs))
    /\ UNCHANGED <<call, self, sweep, disk, clock, meta>>

InitFn ==
    /\ \/ call \in NeighbourCalls
       \/ call \in ElectronCalls
       \/ call \in RattleBondCalls
       \/ call \in SnbCalls
       \/ call \in DistortCalls
    /\ ret = None
    /\ self = None /\ sweep = None /\ disk = None /\ clock = 0 /\ meta = None

NextFn ==
    \/ CallCalcNumberNeighbours
    \/ CallCalcNumberElectrons
    \/ CallApplyRattleBondDistortions
    \/ CallApplySnbDistortions
    \/ CallDistort

SpecFn == InitFn /\ [][NextFn]_vars

(***************************************************************************)
(* Distortions: __init__ and the helpers of apply_distortions              *)
(***************************************************************************)
\* np.arange(0, 0.601, increment) stops below 0.601
ArangeStop == 6010

Negated(x) == [neg |-> ~x.neg, mag |-> x.mag]
Reversed(s) == [i \in 1 .. Len(s) |-> s[Len(s) + 1 - i]]
\* np.around(np.arange(0, 0.601, increment), decimals=3)
Arange(increment) ==
    [k \in 1 .. ((ArangeStop + increment - 1) \div increment) |->
        Round3(Float(FALSE, (k - 1) * increment))]
\* lines 631-634: list(np.flip(up) * -1)[:-1] + list(up)
DefaultBondDistortions(increment) ==
    LET up == Arange(increment)
        down == [i \in DOMAIN up |-> Negated(Reversed(up)[i])]
    IN  SubSeq(down, 1, Len(down) - 1) \o up

\* truth value of an optional dict or list
Truthy(o) == ~IsNone(o) /\ DOMAIN Get(o) # {}

Distortions(defects_dict, oxidation_states, dict_number_electrons_user, distortion_increment, bond_distortions, stdev, distorted_elements, kwargs) ==
    LET given == Truthy(bond_distortions)
        inc == IF given THEN None ELSE Some(distortion_increment)
        bd == IF given
              THEN [i \in DOMAIN Get(bond_distortions) |-> Round3(Get(bond_distortions)[i])]
              ELSE DefaultBondDistortions(distortion_increment)
    IN  [defects_dict |-> defects_dict,
         oxidation_states |-> oxidation_states,
         distorted_elements |-> distorted_elements,
         dict_number_electrons_user |-> dict_number_electrons_user,
         stdev |-> stdev,
         distortion_increment |-> inc,
         bond_distortions |-> bd,
         _mc_rattle_kwargs |-> kwargs,
         distortion_metadata |->
             [distortion_parameters |->
                  [distortion_increment |-> inc, bond_distortions |-> bd,
                   rattle_stdev |-> stdev],
              defects |-> <<>>]]

\* lines 853-855: the defect lists of every key but "bulk", concatenated
RECURSIVE CombDefs(_, _)
CombDefs(defects_dict, n) ==
    IF n > Len(defects_dict) THEN <<>>
    ELSE IF defects_dict[n].k = "bulk" THEN CombDefs(defects_dict, n + 1)
    ELSE defects_dict[n].v \o CombDefs(defects_dict, n + 1)

\* _parse_distorted_element; the warnings.warn of lines 668-672 is given two
\* strings where a category and a stacklevel belong and raises TypeError
_parse_distorted_element(defect_name, distorted_elements) ==
    IF Truthy(distorted_elements)
    THEN IF defect_name \in DOMAIN Get(distorted_elements)
         THEN [exc |-> "", value |-> Some(Get(distorted_elements)[defect_name])]
         ELSE [exc |-> "TypeError", value |-> None]
    ELSE [exc |-> "", value |-> None]

\* a slip: the user's counts are never consulted
_parse_number_electrons_computed(defect_name, oxidation_states, dict_number_electrons_user, defect) ==
    calc_number_electrons(defect, oxidation_states)

\* _parse_number_electrons: [exc, value, oxidation_states as the call leaves it]
_parse_number_electrons(defect_name, oxidation_states, dict_number_electrons_user, defect) ==
    IF Truthy(dict_number_electrons_user)
    THEN IF defect_name \in DOMAIN Get(dict_number_electrons_user)
         THEN [exc |-> "", value |-> Get(dict_number_electrons_user)[defect_name],
               oxidation_states |-> oxidation_states]
         ELSE [exc |-> "KeyError", value |-> 0, oxidation_states |-> oxidation_states]
    ELSE calc_number_electrons(defect, oxidation_states)

\* a slip of sign: the charge is subtracted
_get_number_distorted_neighbours_minus(defect_name, number_electrons, charge) ==
    calc_number_neighbours(number_electrons - charge)

_get_number_distorted_neighbours(defect_name, number_electrons, charge) ==
    LET num_electrons_charged_defect == number_electrons + charge
    IN  calc_number_neighbours(num_electrons_charged_defect)

\* keys of the charge dicts: int as computed, str once read back from JSON
IntKey(charge) == [t |-> "int", v |-> charge]
StrKey(charge) == [t |-> "str", v |-> charge]

_update_distortion_metadata(s, distortion_metadata, defect_name, charge, defect_site_index, num_nearest_neighbours, distorted_atoms) ==
    LET n == Lookup(distortion_metadata.defects, defect_name)
        old == distortion_metadata.defects[n].v
        entry == [num_nearest_neighbours |-> num_nearest_neighbours,
                  distorted_atoms |-> distorted_atoms,
                  distortion_parameters |->
                      [bond_distortions |-> s.bond_distortions,
                       rattle_stdev |-> Some(s.stdev)]]
    IN  [distortion_metadata EXCEPT !.defects[n].v =
            [old EXCEPT
                !.defect_site_index = IF ~IsNone(defect_site_index)
                                      THEN defect_site_index ELSE @,
                !.charges = DictSet(@, IntKey(charge), entry)]]

RECURSIVE ChargeSlots(_, _)
\* {charge: {} for charge in defect["charges"]}
ChargeSlots(charges, n) ==
    IF n = 0 THEN <<>> ELSE DictSet(ChargeSlots(charges, n - 1), charges[n], None)

_setup_distorted_defect_dict(defect_name, defect, distorted_defects_dict) ==
    DictSet(distorted_defects_dict, defect_name,
            [defect_type |-> defect.name,
             defect_site |-> defect.unique_site,
             defect_supercell_site |-> defect.bulk_supercell_site,
             defect_multiplicity |-> defect.site_multiplicity,
             supercell |-> defect.supercell.size,
             charges |-> ChargeSlots(defect.charges, Len(defect.charges)),
             substitution_specie |-> IF defect.substitution_specie # ""
                                     THEN Some(defect.substitution_specie) ELSE None])

(***************************************************************************)
(* Distortions.apply_distortions, one action per loop pass                 *)
(***************************************************************************)
\* a slip: the entry kept as 'Unperturbed' is the structure last distorted
StructuresAliased(r) ==
    [Unperturbed |-> IF r.distortions = <<>> THEN r.Unperturbed.supercell.structure
                     ELSE r.distortions[Len(r.distortions)].v,
     distortions |-> r.distortions]
\* lines 904-907
Structures(r) ==
    [Unperturbed |-> r.Unperturbed.supercell.structure,
     distortions |-> r.distortions]

\* where the loops stand after charge j of defect i (j = 0: before its first charge)
Advance(comb_defs, i, j) ==
    IF i > Len(comb_defs) THEN [pc |-> "return", i |-> i, j |-> 0]
    ELSE IF j < Len(comb_defs[i].charges) THEN [pc |-> "charge", i |-> i, j |-> j + 1]
    ELSE IF i < Len(comb_defs) THEN [pc |-> "defect", i |-> i + 1, j |-> 0]
    ELSE [pc |-> "return", i |-> i + 1, j |-> 0]

Raised(sw, e) == [sw EXCEPT !.pc = "raised", !.exc = e]

NotStarted ==
    [pc |-> "idle", comb_defs |-> <<>>, i |-> 0, j |-> 0,
     distorted_defects_dict |-> <<>>, number_electrons |-> 0,
     distorted_element |-> None, exc |-> "", warnings |-> <<>>,
     charged_defect |-> <<>>]

\* lines 846-855; functools.reduce over no list at all raises TypeError
ApplyDistortions ==
    /\ ~IsNone(self) /\ sweep.pc = "idle"
    /\ LET s == Get(self)
           comb_defs == CombDefs(s.defects_dict, 1)
       IN  IF Keys(s.defects_dict) \subseteq {"bulk"}
           THEN sweep' = Raised(sweep, "TypeError")
           ELSE sweep' = [sweep EXCEPT
                             !.comb_defs = comb_defs,
                             !.pc = IF comb_defs = <<>> THEN "return" ELSE "defect",
                             !.i = 1]
    /\ UNCHANGED <<call, ret, self, disk, clock, meta>>

\* a slip: an exception of the electron count is swallowed and 0 is used
DefectSetUpCaught(s, sw, defect, element, electrons) ==
    IF element.exc # ""
    THEN [self |-> s, sweep |-> Raised(sw, element.exc)]
    ELSE [self |-> [s EXCEPT
                       !.oxidation_states = electrons.oxidation_states,
                       !.distortion_metadata.defects =
                           DictSet(@, defect.name,
                                   [unique_site |-> defect.bulk_supercell_site.frac_coords,
                                    charges |-> <<>>, defect_site_index |-> None])],
          sweep |-> [sw EXCEPT
                        !.distorted_element = element.value,
                        !.number_electrons = electrons.value,
                        !.distorted_defects_dict =
                            _setup_distorted_defect_dict(defect.name, defect, @),
                        !.pc = Advance(sw.comb_defs, sw.i, 0).pc,
                        !.i = Advance(sw.comb_defs, sw.i, 0).i,
                        !.j = Advance(sw.comb_defs, sw.i, 0).j]]

\* lines 874-883, once both parsers have returned
DefectSetUp(s, sw, defect, element, electrons) ==
    IF element.exc # ""
    THEN [self |-> s, sweep |-> Raised(sw, element.exc)]
    ELSE IF electrons.exc # ""
    THEN [self |-> [s EXCEPT !.oxidation_states = electrons.oxidation_states],
          sweep |-> Raised(sw, electrons.exc)]
    ELSE [self |-> [s EXCEPT
                       !.oxidation_states = electrons.oxidation_states,
                       !.distortion_metadata.defects =
                           DictSet(@, defect.name,
                                   [unique_site |-> defect.bulk_supercell_site.frac_coords,
                                    charges |-> <<>>, defect_site_index |-> None])],
          sweep |-> [sw EXCEPT
                        !.distorted_element = element.value,
                        !.number_electrons = electrons.value,
                        !.distorted_defects_dict =
                            _setup_distorted_defect_dict(defect.name, defect, @),
                        !.pc = Advance(sw.comb_defs, sw.i, 0).pc,
                        !.i = Advance(sw.comb_defs, sw.i, 0).i,
                        !.j = Advance(sw.comb_defs, sw.i, 0).j]]

\* lines 857-883: the body of the defect loop before the charge loop
NextDefect ==
    /\ ~IsNone(self) /\ sweep.pc = "defect"
    /\ LET s == Get(self)
           defect == sweep.comb_defs[sweep.i]
       IN  \E out \in {DefectSetUp(s, sweep, defect,
                          _parse_distorted_element(defect.name, s.distorted_elements),
                          _parse_number_electrons(defect.name, s.oxidation_states,
                                                  s.dict_number_electrons_user, defect))} :
               self' = Some(out.self) /\ sweep' = out.sweep
    /\ UNCHANGED <<call, ret, disk, clock, meta>>

\* lines 904-922, r being what apply_snb_distortions returned
ChargeStored(s, sw, defect, charge, num_nearest_neighbours, r) ==
    IF r.exc # ""
    THEN [self |-> s,
          sweep |-> [Raised(sw, r.exc) EXCEPT !.warnings = @ \o r.warnings]]
    ELSE IF IsNone(r.distortion_parameters)
    THEN [self |-> s,
          sweep |-> [Raised(sw, "KeyError") EXCEPT !.warnings = @ \o r.warnings]]
    ELSE [self |-> [s EXCEPT !.distortion_metadata =
                       _update_distortion_metadata(
                           s, @, defect.name, charge,
                           Get(r.distortion_parameters).defect_site_index,
                           num_nearest_neighbours,
                           Get(r.distortion_parameters).distorted_atoms)],
          sweep |-> [sw EXCEPT
                        !.warnings = @ \o r.warnings,
                        !.distorted_defects_dict[Lookup(sw.distorted_defects_dict,
                                                       defect.name)].v.charges =
                            DictSet(@, charge, Some([structures |-> Structures(r)])),
                        !.pc = Advance(sw.comb_defs, sw.i, sw.j).pc,
                        !.i = Advance(sw.comb_defs, sw.i, sw.j).i,
                        !.j = Advance(sw.comb_defs, sw.i, sw.j).j]]

\* lines 893-901
ChargeDistorted(s, sw, defect, charge, num_nearest_neighbours) ==
    ChargeStored(s, sw, defect, charge, num_nearest_neighbours,
                 apply_snb_distortions(
                     defect, num_nearest_neighbours, s.bond_distortions, s.stdev,
                     s._mc_rattle_kwargs.d_min, sw.distorted_element,
                     [seed |-> s._mc_rattle_kwargs.seed,
                      bogus |-> s._mc_rattle_kwargs.bogus,
                      active_atoms |-> s._mc_rattle_kwargs.active_atoms]))

\* lines 885-922: one pass of the charge loop
NextCharge ==
    /\ ~IsNone(self) /\ sweep.pc = "charge"
    /\ LET s == Get(self)
           defect == sweep.comb_defs[sweep.i]
           charge == defect.charges[sweep.j]
       IN  \E out \in {ChargeDistorted(s, sweep, defect, charge,
                          _get_number_distorted_neighbours(
                              defect.name, sweep.number_electrons, charge))} :
               self' = Some(out.self) /\ sweep' = out.sweep
    /\ UNCHANGED <<call, ret, disk, clock, meta>>

\* line 924
ReturnDistortions ==
    /\ ~IsNone(self) /\ sweep.pc = "return"
    /\ sweep' = [sweep EXCEPT !.pc = "done"]
    /\ ret' = Some([exc |-> "",
                    value |-> <<sweep.distorted_defects_dict,
                                Get(self).distortion_metadata>>])
    /\ UNCHANGED <<call, self, disk, clock, meta>>

(***************************************************************************)
(* Sweeps: the Distortions objects the model constructs                    *)
(***************************************************************************)
\* charge states of a defect range over -MaxCharge..MaxCharge
MaxCharge == 2

ChargeLists ==
    {<<q>> : q \in (-MaxCharge) .. MaxCharge}
    \cup {<<0, -1, -2>>, <<-2, -1, 0>>, <<1, 0>>, <<0, -1>>}
WithCharges(d, charges) == [d EXCEPT !.charges = charges]
\* the key doped files a defect under
KindKey(d) ==
    CASE d.defect_type = "vacancy" -> "vacancies"
      [] d.defect_type = "interstitial" -> "interstitials"
      [] d.defect_type = "antisite" -> "antisites"
      [] OTHER -> "substitutions"
BulkEntry == [k |-> "bulk", v |-> <<>>]

SweepKw(d_min, seed, bogus) ==
    [d_min |-> d_min, seed |-> seed, bogus |-> bogus, active_atoms |-> None]
CdTeOnly == [s \in {"Cd", "Te"} |-> CdTe[s]]
\* the largest count a user gives in dict_number_electrons_user
MaxUserCount == 17
UserCounts ==
    {None, Some([n \in {d.name : d \in DefectMenu} |-> 3]), Some([n \in {"vac_1_Cd"} |-> -5]),
     Some([n \in {"vac_1_Cd"} |-> MaxUserCount])}

\* one defect, every charge list, with and without the user's electron counts
SingleDefectInputs ==
    {[fn |-> "Distortions",
      defects_dict |-> <<BulkEntry, [k |-> KindKey(d), v |-> <<WithCharges(d, cs)>>]>>,
      oxidation_states |-> ox, dict_number_electrons_user |-> user,
      distortion_increment |-> 1000,
      bond_distortions |-> Some(<<Float(TRUE, 5000)>>),
      stdev |-> DefaultStdev, distorted_elements |-> None,
      kwargs |-> SweepKw(None, None, FALSE)] :
        d \in DefectMenu, cs \in ChargeLists, ox \in {CdTe, CdTeOnly}, user \in UserCounts}

SurveyDefects ==
    <<BulkEntry,
      [k |-> "vacancies", v |-> <<WithCharges(DefectNamed("vac_1_Cd"), <<0, -1, -2>>),
                                  WithCharges(DefectNamed("vac_2_Te"), <<1, 2>>)>>],
      [k |-> "interstitials", v |-> <<WithCharges(DefectNamed("Int_Cd_1"), <<2, 0>>)>>]>>
SurveyElements ==
    {None,
     Some([n \in {"vac_1_Cd", "vac_2_Te", "Int_Cd_1"} |-> "Te"]),
     Some([n \in {"vac_1_Cd"} |-> "Te"])}
\* distortion_increment: 0.25, 0.3, 0.5 and one that is no multiple of 0.001
Increments == {2500, 3000, 5000, 2002}
SurveyBondDistortions ==
    {None, Some(<<>>), Some(<<Float(TRUE, 3004), Float(TRUE, 4), Float(FALSE, 2000)>>)}

\* several defects, default and explicit distortion sets, rattle keywords
SurveyInputs ==
    {[fn |-> "Distortions",
      defects_dict |-> dd,
      oxidation_states |-> CdTe, dict_number_electrons_user |-> None,
      distortion_increment |-> inc, bond_distortions |-> bd,
      stdev |-> DefaultStdev, distorted_elements |-> el,
      kwargs |-> SweepKw(dm, sd, bg)] :
        dd \in {SurveyDefects, <<BulkEntry>>},
        inc \in Increments, bd \in SurveyBondDistortions, el \in SurveyElements,
        dm \in {None, Some(150)}, sd \in SeedChoices, bg \in BOOLEAN}

Constructed(c) ==
    Distortions(c.defects_dict, c.oxidation_states, c.dict_number_electrons_user,
                c.distortion_increment, c.bond_distortions, c.stdev,
                c.distorted_elements, c.kwargs)

(***************************************************************************)
(* _write_distortion_metadata: the metadata file and its dated copies      *)
(***************************************************************************)
\* json.dumps turns every dict key into a string and every tuple into a list
JsonAtoms(atoms) ==
    IF IsNone(atoms) THEN None
    ELSE Some([i \in DOMAIN Get(atoms) |-> [Get(atoms)[i] EXCEPT !.form = "list"]])
JsonEntry(entry) == [entry EXCEPT !.distorted_atoms = JsonAtoms(@)]
\* a dict holding both 0 and "0" is written with the key "0" twice
JsonCharges(charges) ==
    [i \in DOMAIN charges |-> [k |-> StrKey(charges[i].k.v), v |-> JsonEntry(charges[i].v)]]
JsonDefects(defects) ==
    [i \in DOMAIN defects |->
        [k |-> defects[i].k,
         v |-> [defects[i].v EXCEPT !.charges = JsonCharges(@)]]]
Dumps(metadata) == [metadata EXCEPT !.defects = JsonDefects(@)]

RECURSIVE FromPairs(_, _)
\* json.load of an object: a repeated key keeps its first place and its last value
FromPairs(pairs, n) ==
    IF n = 0 THEN <<>> ELSE DictSet(FromPairs(pairs, n - 1), pairs[n].k, pairs[n].v)
LoadedDefects(defects) ==
    [i \in DOMAIN defects |->
        [k |-> defects[i].k,
         v |-> [defects[i].v EXCEPT !.charges = FromPairs(@, Len(@))]]]
Load(document) == [document EXCEPT !.defects = LoadedDefects(@)]

\* == of two lists of floats (-0.0 == 0.0)
SameFloats(a, b) == Len(a) = Len(b) /\ \A i \in DOMAIN a : Signed(a[i]) = Signed(b[i])
\* == of two charge entries (a tuple is never equal to a list)
EqualEntries(a, b) ==
    /\ a.num_nearest_neighbours = b.num_nearest_neighbours
    /\ a.distorted_atoms = b.distorted_atoms
    /\ a.distortion_parameters.rattle_stdev = b.distortion_parameters.rattle_stdev
    /\ SameFloats(a.distortion_parameters.bond_distortions,
                  b.distortion_parameters.bond_distortions)

\* the running merge: new_metadata as mutated so far, warnings, exception
Merging(new_metadata) == [new_metadata |-> new_metadata, warnings |-> <<>>, exc |-> ""]

\* lines 109-143: one charge of new_metadata, for a defect both sides have
MergeCharge(acc, d, old_charges, charge) ==
    LET new_charges == acc.new_metadata.defects[d].v.charges
        c == Lookup(new_charges, charge)
    IN  IF Has(old_charges, charge)
        THEN IF EqualEntries(new_charges[c].v, Val(old_charges, charge))
             THEN [acc EXCEPT
                      !.new_metadata.defects[d].v.charges[c].v.distortion_parameters =
                          [bond_distortions |->
                               @.bond_distortions
                                   \o Val(old_charges, charge).distortion_parameters.bond_distortions,
                           rattle_stdev |-> None]]
             ELSE [acc EXCEPT !.warnings =
                      Append(@, Warning("different", acc.new_metadata.defects[d].k, charge))]
        ELSE [acc EXCEPT !.exc = "KeyError"]

RECURSIVE MergeCharges(_, _, _, _, _)
\* lines 108-143: for charge in new_metadata["defects"][defect]["charges"]
MergeCharges(acc, d, old_charges, charges, n) ==
    IF n > Len(charges) \/ acc.exc # "" THEN acc
    ELSE MergeCharges(MergeCharge(acc, d, old_charges, charges[n]),
                      d, old_charges, charges, n + 1)

\* lines 105-147: one defect of the old document
MergeDefect(acc, old_entry) ==
    IF Has(acc.new_metadata.defects, old_entry.k)
    THEN MergeCharges(acc, Lookup(acc.new_metadata.defects, old_entry.k),
                      old_entry.v.charges,
                      KeySeq(Val(acc.new_metadata.defects, old_entry.k).charges), 1)
    ELSE [acc EXCEPT !.new_metadata.defects = DictSet(@, old_entry.k, old_entry.v)]

RECURSIVE MergeDefects(_, _, _)
\* lines 104-147: for defect in old_metadata["defects"]
MergeDefects(acc, old_metadata, n) ==
    IF n > Len(old_metadata.defects) \/ acc.exc # "" THEN acc
    ELSE MergeDefects(MergeDefect(acc, old_metadata.defects[n]), old_metadata, n + 1)

\* lines 94-152: the KeyError handler keeps new_metadata as mutated so far
Combined(acc) ==
    IF acc.exc = "KeyError"
    THEN [acc EXCEPT !.exc = "", !.warnings = Append(@, Warning("problem", "", ""))]
    ELSE acc

\* calls of _write_distortion_metadata in one run of the model
MaxWrites == 2
\* the wall clock runs over minutes 0..MaxClock
MaxClock == 1

\* metadata of a sweep ("fresh": int keys, tuples) or read back from a JSON
\* document ("json": str keys, lists)
MetaAtoms(form) == Some(<<[form |-> form, index |-> 1, specie |-> "Te"]>>)
MetaEntry(form, num_nearest_neighbours) ==
    [num_nearest_neighbours |-> num_nearest_neighbours,
     distorted_atoms |-> IF form = "fresh" THEN MetaAtoms("tuple") ELSE MetaAtoms("list"),
     distortion_parameters |->
         [bond_distortions |-> <<Float(TRUE, 5000)>>, rattle_stdev |-> Some(DefaultStdev)]]
MetaKey(form, charge) == IF form = "fresh" THEN IntKey(charge) ELSE StrKey(charge)
\* the entry of one defect: charges is a sequence of <<charge, neighbours>>
MetaDefect(form, name, charges) ==
    [k |-> name,
     v |-> [unique_site |-> 0,
            charges |-> [i \in DOMAIN charges |->
                            [k |-> MetaKey(form, charges[i][1]),
                             v |-> MetaEntry(form, charges[i][2])]],
            defect_site_index |-> None]]
Metadata(defects) ==
    [distortion_parameters |->
         [distortion_increment |-> None, bond_distortions |-> <<Float(TRUE, 5000)>>,
          rattle_stdev |-> DefaultStdev],
     defects |-> defects]
\* the metadata of a run with another mesh of bond distortions
OtherMesh(form) ==
    [Metadata(<<MetaDefect(form, "vac_1_Cd", <<<<0, 2>>>>)>>) EXCEPT
        !.distortion_parameters.bond_distortions = <<Float(TRUE, 3000), Float(FALSE, 3000)>>,
        !.defects[1].v.charges[1].v.distortion_parameters.bond_distortions =
            <<Float(TRUE, 3000), Float(FALSE, 3000)>>]
MetadataMenu(form) ==
    {Metadata(d) : d \in
        {<<>>,
         <<MetaDefect(form, "vac_1_Cd", <<<<0, 2>>>>)>>,
         <<MetaDefect(form, "vac_1_Cd", <<<<0, 2>>, <<-1, 2>>>>)>>,
         <<MetaDefect(form, "vac_1_Cd", <<<<0, 1>>>>)>>,
         <<MetaDefect(form, "vac_1_Cd", <<<<-1, 2>>>>)>>,
         <<MetaDefect(form, "Int_Cd_1", <<<<0, 2>>>>)>>,
         <<MetaDefect(form, "vac_1_Cd", <<<<0, 2>>>>),
           MetaDefect(form, "Int_Cd_1", <<<<0, 2>>>>)>>,
         <<MetaDefect(form, "Int_Cd_1", <<<<0, 2>>>>),
           MetaDefect(form, "vac_1_Cd", <<<<0, 2>>, <<-1, 2>>>>)>>}}
    \cup {OtherMesh(form)}

NoFiles == [current |-> None, backups |-> [t \in 0 .. MaxClock |-> None]]
\* versions: every document that has been at the target path so far
NothingWritten ==
    [writes |-> 0, old |-> None, supplied |-> None, new_metadata |-> None,
     warnings |-> <<>>, versions |-> {}]

\* lines 153-154 after the merge: the document written, the caller's object
WrittenFrom(old, supplied, acc, backups) ==
    [disk |-> [current |-> Some(Dumps(acc.new_metadata)), backups |-> backups],
     meta |-> [writes |-> meta.writes + 1, old |-> old, supplied |-> Some(supplied),
               new_metadata |-> Some(acc.new_metadata), warnings |-> acc.warnings,
               versions |-> meta.versions \cup {Dumps(acc.new_metadata)}]]

\* the whole of _write_distortion_metadata(new_metadata); an existing file is
\* renamed to the copy stamped with the current minute, replacing that copy
Written(new_metadata) ==
    IF IsNone(disk.current)
    THEN WrittenFrom(None, new_metadata, Merging(new_metadata), disk.backups)
    ELSE WrittenFrom(disk.current, new_metadata,
                     Combined(MergeDefects(Merging(new_metadata),
                                           Load(Get(disk.current)), 1)),
                     [disk.backups EXCEPT ![clock] = disk.current])

WriteDistortionMetadata ==
    /\ ~IsNone(meta) /\ meta.writes < MaxWrites
    /\ \E form \in {"fresh", "json"} : \E new_metadata \in MetadataMenu(form) :
           \E out \in {Written(new_metadata)} :
               disk' = out.disk /\ meta' = out.meta
    /\ UNCHANGED <<call, ret, self, sweep, clock>>

\* a minute passes
Tick ==
    /\ ~IsNone(meta) /\ clock < MaxClock
    /\ clock' = clock + 1
    /\ UNCHANGED <<call, ret, self, sweep, disk, meta>>

InitMeta ==
    /\ call = Idle /\ ret = None /\ self = None /\ sweep = None
    /\ \/ disk = NoFiles /\ meta = NothingWritten
       \/ \E old \in MetadataMenu("json") :
              /\ disk = [NoFiles EXCEPT !.current = Some(Dumps(old))]
              /\ meta = [NothingWritten EXCEPT !.versions = {Dumps(old)}]
    /\ clock = 0

NextMeta ==
    \/ WriteDistortionMetadata
    \/ Tick

SpecMeta == InitMeta /\ [][NextMeta]_vars

(***************************************************************************)
(* Distortions.write_vasp_files: the folders of trial structures           *)
(***************************************************************************)
\* key_distortion.split("_")[-1]: "-50.0%", "Rattled", "Unperturbed"
LastPart(key_distortion) ==
    [key_distortion EXCEPT !.name = IF @ = "Bond_Distortion" THEN "" ELSE @]

_generate_structure_comment(distortion_metadata, key_distortion, charge, defect_name) ==
    [distortion |-> LastPart(key_distortion),
     num_neighbours |->
         Val(Val(distortion_metadata.defects, defect_name).charges,
             IntKey(charge)).num_nearest_neighbours,
     defect_name |-> defect_name]

\* copy.deepcopy(dict_transf) updated with {"charge": charge}
TransformationDict(defect_dict, charge) ==
    [f \in (DOMAIN defect_dict \ {"charges"}) \cup {"charge"} |->
        IF f = "charge" THEN charge ELSE defect_dict[f]]

\* the entry of one trial structure in charged_defect
SingleDefectDict(structure, poscar_comment, defect_dict, charge) ==
    [Defect_Structure |-> structure,
     POSCAR_Comment |-> poscar_comment,
     Transformation_Dict |-> TransformationDict(defect_dict, charge)]

\* f"{defect_name}_{charge}"
FolderName(defect_name, charge) == [defect |-> defect_name, charge |-> charge]

\* shakenbreak.io.vasp_gam_files: the calculation inputs written in input_dir
vasp_gam_files(single_defect_dict, input_dir) ==
    [path |-> input_dir,
     structure |-> single_defect_dict.Defect_Structure,
     comment |-> single_defect_dict.POSCAR_Comment,
     charge |-> single_defect_dict.Transformation_Dict.charge]

\* one folder per key of distorted_defect_dict; a folder already there is rewritten
_create_vasp_input(folders, defect_name, distorted_defect_dict) ==
    LET written == {vasp_gam_files(distorted_defect_dict[i].v,
                                   <<defect_name, distorted_defect_dict[i].k>>) :
                        i \in DOMAIN distorted_defect_dict}
    IN  {f \in folders : \A w \in written : w.path # f.path} \cup written

RECURSIVE WithDistortions(_, _, _, _, _, _, _)
\* lines 1018-1032: the loop over the distortions of one charge state
WithDistortions(charged_defect, distortions, n, distortion_metadata, defect_name, defect_dict, charge) ==
    IF n = 0 THEN charged_defect
    ELSE DictSet(WithDistortions(charged_defect, distortions, n - 1, distortion_metadata,
                                 defect_name, defect_dict, charge),
                 distortions[n].k,
                 SingleDefectDict(distortions[n].v,
                                  _generate_structure_comment(
                                      distortion_metadata, distortions[n].k, charge,
                                      defect_name),
                                  defect_dict, charge))

\* lines 998-1040: the body of the charge loop, charged_defect being the dict
\* the defect's earlier charge states left behind
ChargeWritten(folders, charged_defect, distortion_metadata, defect_name, defect_dict, charge) ==
    LET structures == Get(Val(defect_dict.charges, charge)).structures
        unperturbed ==
            DictSet(charged_defect, Label("Unperturbed"),
                    SingleDefectDict(structures.Unperturbed,
                                     _generate_structure_comment(
                                         distortion_metadata, Label("Unperturbed"),
                                         charge, defect_name),
                                     defect_dict, charge))
        all == WithDistortions(unperturbed, structures.distortions,
                               Len(structures.distortions), distortion_metadata,
                               defect_name, defect_dict, charge)
    IN  [folders |-> _create_vasp_input(
                         _create_vasp_input(folders, FolderName(defect_name, charge),
                                            unperturbed),
                         FolderName(defect_name, charge), all),
         charged_defect |-> all]

RECURSIVE FolderAdvance(_, _, _)
\* where the loops of write_vasp_files stand after charge j of defect i
FolderAdvance(distorted_defects_dict, i, j) ==
    IF i > Len(distorted_defects_dict) THEN [pc |-> "metadata", i |-> i, j |-> 0]
    ELSE IF j < Len(distorted_defects_dict[i].v.charges)
    THEN [pc |-> "folders", i |-> i, j |-> j + 1]
    ELSE FolderAdvance(distorted_defects_dict, i + 1, 0)

\* lines 983-989: write_vasp_files, once its call of apply_distortions returned
WriteVaspFiles ==
    /\ ~IsNone(self) /\ sweep.pc = "done"
    /\ LET at == FolderAdvance(Get(ret).value[1], 1, 0)
       IN  /\ self' = Some([Get(self) EXCEPT !.distortion_metadata = Get(ret).value[2]])
           /\ sweep' = [sweep EXCEPT !.pc = at.pc, !.i = at.i, !.j = at.j,
                                     !.charged_defect = <<>>]
    /\ UNCHANGED <<call, ret, disk, clock, meta>>

\* lines 991-1040: one pass of the charge loop; charged_defect = {} (line 994)
\* is run once per defect, before its first charge state
WriteChargeFolders ==
    /\ ~IsNone(self) /\ sweep.pc = "folders"
    /\ LET entry == Get(ret).value[1][sweep.i]
           charge == entry.v.charges[sweep.j].k
           at == FolderAdvance(Get(ret).value[1], sweep.i, sweep.j)
       IN  \E out \in {ChargeWritten(disk.folders,
                                     IF sweep.j = 1 THEN <<>> ELSE sweep.charged_defect,
                                     Get(self).distortion_metadata, entry.k, entry.v,
                                     charge)} :
               /\ disk' = [disk EXCEPT !.folders = out.folders]
               /\ sweep' = [sweep EXCEPT !.pc = at.pc, !.i = at.i, !.j = at.j,
                                         !.charged_defect = out.charged_defect]
    /\ UNCHANGED <<call, ret, self, clock, meta>>

\* line 1042: self.write_distortion_metadata(output_path), which hands
\* self.distortion_metadata to _write_distortion_metadata; the body of
\* write_vasp_files ends there, without a return statement: the call gives None
WriteMetadata ==
    /\ ~IsNone(self) /\ sweep.pc = "metadata"
    /\ \E out \in {Written(Get(self).distortion_metadata)} :
           /\ disk' = [current |-> out.disk.current, backups |-> out.disk.backups,
                       folders |-> disk.folders]
           /\ meta' = out.meta
           /\ self' = Some([Get(self) EXCEPT
                               !.distortion_metadata = Get(out.meta.new_metadata)])
    /\ sweep' = [sweep EXCEPT !.pc = "written"]
    /\ ret' = Some([exc |-> "", value |-> None])
    /\ UNCHANGED <<call, clock>>

\* output_path before the run: no metadata file, no folder
NoOutput ==
    [current |-> None, backups |-> [t \in 0 .. MaxClock |-> None], folders |-> {}]


Init ==
    /\ \/ call \in SingleDefectInputs
       \/ call \in SurveyInputs
    /\ self = Some(Constructed(call))
    /\ sweep = NotStarted
    /\ ret = None
    /\ disk = NoOutput /\ clock = 0 /\ meta = NothingWritten

Next ==
    \/ ApplyDistortions
    \/ NextDefect
    \/ NextCharge
    \/ ReturnDistortions
    \/ WriteVaspFiles
    \/ WriteChargeFolders
    \/ WriteMetadata

Spec == Init /\ [][Next]_vars

(***************************************************************************)
(* Properties of the module-level functions (checked under SpecFn)         *)
(***************************************************************************)
Returned(fn) == call.fn = fn /\ ~IsNone(ret)
Result == Get(ret)

\* C2 (as stated): for every integer n, calc_number_neighbours(n) =
\* calc_number_neighbours(-n) and 0 <= calc_number_neighbours(n) <= 4.
C2_AsStated ==
    Returned("calc_number_neighbours") =>
        /\ Result.value = calc_number_neighbours(-call.num_electrons)
        /\ 0 <= Result.value /\ Result.value <= 4

\* the values the spec tabulates: 0->0, 2->2, 4->4, 6->2, 8->0
C2_Table == [n \in {0, 2, 4, 6, 8} |-> IF n <= 4 THEN n ELSE 8 - n]

\* C2 (amended): for every integer n, calc_number_neighbours(n) =
\* calc_number_neighbours(-n) >= 0, with 0->0, 2->2, 4->4, 6->2, 8->0; the
\* result is <= 4 exactly when |n| <= 12, and is |n| - 8 > 4 beyond that.
C2_SymmetricAndBoundedUpTo12 ==
    Returned("calc_number_neighbours") =>
        LET n == call.num_electrons
        IN  /\ Result.exc = ""
            /\ Result.value = calc_number_neighbours(-n)
            /\ Result.value >= 0
            /\ (Abs(n) <= 12) <=> (Result.value <= 4)
            /\ Abs(n) > 12 => Result.value = Abs(n) - 8
            /\ Abs(n) \in DOMAIN C2_Table => Result.value = C2_Table[Abs(n)]

\* a count beyond 12 has been evaluated (-13 gives 5 neighbours)
C2_Witness ==
    /\ Returned("calc_number_neighbours")
    /\ call.num_electrons = -13 /\ Result.value = 5

\* the species the claim names for a defect; "vacant" is the pseudo-species
C5_SiteSpecies(d) == IF d.defect_type = "interstitial" THEN "vacant" ELSE d.site_specie
C5_SubstitutingSpecies(d) ==
    CASE d.defect_type = "vacancy" -> "vacant"
      [] d.defect_type = "interstitial" -> d.site_specie
      [] d.defect_type = "antisite" -> d.substituting_specie
      [] d.defect_type = "substitution" -> d.substitution_specie
C5_Oxidation(ox, s) == IF s = "vacant" THEN 0 ELSE ox[s]
C5_CdTeValues ==
    [n \in {"vac_1_Cd", "vac_2_Te", "as_1_Cd_on_Te", "as_1_Te_on_Cd", "Int_Cd_1", "Int_Te_1"} |->
        CASE n = "vac_1_Cd" -> 2 [] n = "vac_2_Te" -> -2
          [] n = "as_1_Cd_on_Te" -> -4 [] n = "as_1_Te_on_Cd" -> 4
          [] n = "Int_Cd_1" -> -2 [] n = "Int_Te_1" -> 2]

\* C5: for each of the four defect kinds calc_number_electrons returns
\* oxidation(site species) - oxidation(substituting species), the substituting
\* species of a vacancy and the site species of an interstitial being "vacant"
\* with oxidation state 0; CdTe: V_Cd 2, V_Te -2, Cd_Te -4, Te_Cd 4, Cd_i -2, Te_i 2.
C5_SiteMinusSubstituting ==
    (Returned("calc_number_electrons") /\ Result.exc = "") =>
        LET d == call.defect_dict
            ox == call.oxidation_states
        IN  /\ d.defect_type \in DefectTypes
            /\ Result.value = C5_Oxidation(ox, C5_SiteSpecies(d))
                                - C5_Oxidation(ox, C5_SubstitutingSpecies(d))
            /\ (d.name \in DOMAIN C5_CdTeValues /\ \A sp \in Species : ox[sp] = CdTe[sp])
                  => Result.value = C5_CdTeValues[d.name]

\* the Cd-on-Te antisite of CdTe has been evaluated: -4
C5_Witness ==
    /\ Returned("calc_number_electrons")
    /\ call.defect_dict.name = "as_1_Cd_on_Te"
    /\ Result.exc = "" /\ Result.value = -4

\* the label the claim gives a fraction: its percentage with one decimal
C6_Label(x) ==
    [name |-> "Bond_Distortion", neg |-> x.neg /\ (x.mag + 5) \div 10 # 0,
     permille |-> (x.mag + 5) \div 10]
C6_Count(d, key) == Cardinality({i \in DOMAIN d : d[i].k = key})

\* C6: apply_snb_distortions returns, for a neighbour count > 0, exactly one
\* entry 'Bond_Distortion_<percentage>%' per configured fraction and no
\* 'Rattled' entry; for a neighbour count of 0, exactly one entry, 'Rattled'.
C6_OneEntryPerFractionOrRattled ==
    (Returned("apply_snb_distortions") /\ Result.exc = "") =>
        IF call.num_nearest_neighbours > 0
        THEN /\ \A i \in DOMAIN call.bond_distortions :
                    C6_Count(Result.distortions, C6_Label(call.bond_distortions[i])) = 1
             /\ Keys(Result.distortions) =
                    {C6_Label(call.bond_distortions[i]) : i \in DOMAIN call.bond_distortions}
             /\ ~Has(Result.distortions, Label("Rattled"))
        ELSE KeySeq(Result.distortions) = <<Label("Rattled")>>

\* three fractions have been bond-distorted and returned under three labels
C6_Witness ==
    /\ Returned("apply_snb_distortions") /\ Result.exc = ""
    /\ call.num_nearest_neighbours = 2
    /\ Len(call.bond_distortions) = 3 /\ Len(Result.distortions) = 3

\* the smallest distance between two different sites (0 when two sites coincide)
C8_SmallestPair(structure) ==
    LET D == {Dist(structure[i].pos, structure[j].pos) :
                 <<i, j>> \in {e \in Entries(structure) : e[1] # e[2]}}
    IN  CHOOSE d \in D : \A c \in D : d <= c
\* the smallest distance between two sites that is not zero
C8_SmallestNonzero(structure) ==
    LET D == {Dist(structure[i].pos, structure[j].pos) :
                 <<i, j>> \in Entries(structure)} \ {0}
    IN  CHOOSE d \in D : \A c \in D : d <= c
C8_Warned(calls) ==
    \E i \in DOMAIN Result.warnings :
        Result.warnings[i] = Warning("d_min", calls[1].d_min, calls[2].d_min)

\* C8 (as stated): at most two rattles per call; a first failure about attempts
\* is followed by exactly one second rattle with d_min = smallest nonzero
\* pairwise distance of the bond-distorted structure + 2*stdev and by a warning
\* naming both d_min values; a second failure reaches the caller; any other
\* first failure reaches the caller without a retry.
C8_AsStated ==
    Returned("apply_rattle_bond_distortions") =>
        LET calls == Result.rattle_calls
        IN  /\ Len(calls) <= 2
            /\ (Len(calls) >= 1 /\ MentionsAttempts(calls[1].exc)) =>
                   /\ Len(calls) = 2
                   /\ calls[2].d_min =
                          C8_SmallestNonzero(calls[1].structure) + 2 * call.stdev
                   /\ C8_Warned(calls)
                   /\ calls[2].exc # "" => Result.exc = calls[2].exc
            /\ (Len(calls) >= 1 /\ calls[1].exc # "" /\ ~MentionsAttempts(calls[1].exc)) =>
                   Len(calls) = 1 /\ Result.exc = calls[1].exc

\* C8 (amended): at most two rattles per call; a first failure about attempts
\* is followed by exactly one second rattle of the same structure and atoms
\* with d_min = smallest distance between two different sites of the
\* bond-distorted structure (0 when two sites coincide) + 2*stdev; the warning
\* naming both d_min values is emitted when, and only when, that second rattle
\* succeeds; a second failure reaches the caller; any other first failure
\* reaches the caller without a retry.
C8_RetryOnceWarnOnSuccess ==
    Returned("apply_rattle_bond_distortions") =>
        LET calls == Result.rattle_calls
        IN  /\ Len(calls) <= 2
            /\ (Len(calls) >= 1 /\ MentionsAttempts(calls[1].exc)) =>
                   /\ Len(calls) = 2
                   /\ calls[2].structure = calls[1].structure
                   /\ calls[2].active_atoms = calls[1].active_atoms
                   /\ calls[2].d_min =
                          C8_SmallestPair(calls[1].structure) + 2 * call.stdev
                   /\ C8_Warned(calls) <=> calls[2].exc = ""
                   /\ Result.exc = calls[2].exc
            /\ (Len(calls) >= 1 /\ ~MentionsAttempts(calls[1].exc)) =>
                   Len(calls) = 1 /\ Result.exc = calls[1].exc
            /\ Len(calls) = 0 => Result.exc # ""

\* a first rattle ran out of attempts and the retry with the relaxed d_min succeeded
C8_Witness ==
    /\ Returned("apply_rattle_bond_distortions") /\ Result.exc = ""
    /\ Len(Result.rattle_calls) = 2
    /\ MentionsAttempts(Result.rattle_calls[1].exc)
    /\ Result.rattle_calls[2].d_min < Result.rattle_calls[1].d_min
    /\ C8_Warned(Result.rattle_calls)

\* the sites (zero-based) that the bond distortion reports as distorted
C9_Distorted == {Result.bond_distorted_defect.distorted_atoms[n].index - 1 :
                    n \in DOMAIN Result.bond_distorted_defect.distorted_atoms}
\* the defect's own atom (zero-based): the last site, unless the defect is a vacancy
C9_DefectAtom ==
    IF call.defect_dict.defect_type = "vacancy" THEN {}
    ELSE {Len(call.defect_dict.supercell.structure) - 1}
\* the sites (zero-based) that differ between two structures
C9_Moved(before, after) == {j - 1 : j \in {i \in DOMAIN before : before[i] # after[i]}}

\* C9: without active_atoms, the atoms passed to rattle are exactly all
\* zero-based site indices minus the bond-distorted neighbours (reported
\* one-based index - 1) minus the defect's own atom when the defect is not a
\* vacancy; no atom is both bond-distorted and rattled.
C9_DefaultActiveAtoms ==
    (Returned("apply_rattle_bond_distortions") /\ IsNone(call.active_atoms)) =>
        \A n \in DOMAIN Result.rattle_calls :
            LET c == Result.rattle_calls[n]
                input == call.defect_dict.supercell.structure
            IN  /\ c.active_atoms =
                       ((0 .. (Len(input) - 1)) \ C9_Distorted) \ C9_DefectAtom
                /\ C9_Moved(input, c.structure) \cap c.active_atoms = {}
                /\ Result.exc = "" =>
                       C9_Moved(c.structure, Result.bond_distorted_defect.distorted_structure)
                           \subseteq c.active_atoms

\* two neighbours of an interstitial were pulled in and the others rattled
C9_Witness ==
    /\ Returned("apply_rattle_bond_distortions") /\ IsNone(call.active_atoms)
    /\ call.defect_dict.name = "Int_Cd_1" /\ call.num_nearest_neighbours = 2
    /\ Result.exc = "" /\ Len(Result.rattle_calls) = 1
    /\ Cardinality(C9_Moved(call.defect_dict.supercell.structure,
                            Result.rattle_calls[1].structure)) = 2
    /\ Cardinality(Result.rattle_calls[1].active_atoms)
           = Len(call.defect_dict.supercell.structure) - 3

\* C10: with neighbour count 0 and a defect that is not a vacancy, the rattle
\* of apply_snb_distortions leaves the defect's own atom out of the active set,
\* so its position in 'Rattled' equals its position in the input supercell.
C10_DefectAtomNotRattled ==
    (/\ Returned("apply_snb_distortions") /\ Result.exc = ""
     /\ call.num_nearest_neighbours = 0
     /\ call.defect_dict.defect_type # "vacancy") =>
        LET input == call.defect_dict.supercell.structure
        IN  /\ \A n \in DOMAIN Result.rattle_calls :
                   (Len(input) - 1) \notin Result.rattle_calls[n].active_atoms
            /\ Val(Result.distortions, Label("Rattled"))[Len(input)] = input[Len(input)]

\* the labels 'Bond_Distortion_0.0%' and 'Bond_Distortion_-0.0%'
C17_Zero == [name |-> "Bond_Distortion", neg |-> FALSE, permille |-> 0]
C17_MinusZero == [name |-> "Bond_Distortion", neg |-> TRUE, permille |-> 0]

\* C17: for every bond-distortion fraction that is zero after rounding to 3
\* decimals (negative zero and tiny negative values included) the label
\* apply_snb_distortions produces is 'Bond_Distortion_0.0%', and no label is
\* ever 'Bond_Distortion_-0.0%'.
C17_ZeroIsPositive ==
    (Returned("apply_snb_distortions") /\ Result.exc = "") =>
        /\ ~Has(Result.distortions, C17_MinusZero)
        /\ call.num_nearest_neighbours # 0 =>
               \A i \in DOMAIN call.bond_distortions :
                   Round3(call.bond_distortions[i]).mag = 0
                       => Has(Result.distortions, C17_Zero)

\* -0.0 and -0.0004 have been bond-distorted and stored under 'Bond_Distortion_0.0%'
C17_Witness ==
    /\ Returned("apply_snb_distortions") /\ Result.exc = ""
    /\ call.num_nearest_neighbours # 0
    /\ {Float(TRUE, 0), Float(TRUE, 4)} \subseteq Range(call.bond_distortions)
    /\ Has(Result.distortions, C17_Zero)

C22_Reference ==
    IF IsNone(call.site_index) THEN Get(call.frac_coords)
    ELSE call.structure[Get(call.site_index)].pos
\* candidate i comes before candidate j: nearer to the reference, or as near
\* and of lower index
C22_Before(i, j) ==
    LET di == Dist(C22_Reference, call.structure[i].pos)
        dj == Dist(C22_Reference, call.structure[j].pos)
    IN  di < dj \/ (di = dj /\ i < j)
\* the indices distort reports, in the order reported
C22_Chosen == [n \in DOMAIN Result.distorted_atoms |-> Result.distorted_atoms[n].index]
\* the sites distort could choose from
C22_Candidates ==
    Candidates(call.structure, call.site_index, call.distorted_element)

C19_Rattled ==
    /\ Returned("apply_rattle_bond_distortions") /\ Result.exc = ""
    /\ Result.rattle_calls # <<>>
\* the rattle that produced the structure: the last call made
C19_Last == Result.rattle_calls[Len(Result.rattle_calls)]
\* the pairs of different sites of the returned structure closer than d
C19_Closer(d) ==
    LET st == Result.bond_distorted_defect.distorted_structure
    IN  {e \in Entries(st) : e[1] < e[2] /\ EntryDist(st, e) < d}

MagnitudeSeed(distortion_factor) == distortion_factor \div 100
\* the call under way, with the seed of its distortion factor given explicitly
C20_SeededCall ==
    apply_rattle_bond_distortions(
        call.defect_dict, call.num_nearest_neighbours, call.distortion_factor,
        call.stdev, call.d_min, call.active_atoms, call.distorted_element,
        [call.kw EXCEPT !.seed = Some(MagnitudeSeed(call.distortion_factor))])

\* C20: unless the caller supplies a seed, the stream that rattles a trial
\* structure is seeded as a fixed function of the distortion magnitude being
\* processed (distortion_factor * 100): a call without a seed returns what the
\* same call with that seed returns, and so does every repetition of it.
C20_SeededByMagnitude ==
    (Returned("apply_rattle_bond_distortions") /\ IsNone(call.kw.seed)) =>
        Result = C20_SeededCall

(***************************************************************************)
(* Properties of the sweep (checked under Spec)                            *)
(***************************************************************************)
Done == ~IsNone(self) /\ sweep.pc = "done"
\* the defects the caller supplied, in sweep order
Supplied == CombDefs(call.defects_dict, 1)
\* the metadata entry recorded for a defect and one of its charges
Recorded(defect, charge) ==
    Val(Val(Get(self).distortion_metadata.defects, defect.name).charges, IntKey(charge))
\* the octet rule as the spec words it
Octet(n) == IF Abs(n) <= 4 THEN Abs(n) ELSE Abs(8 - Abs(n))
\* extra_electrons = oxidation(substituting species) - oxidation(site species)
ExtraElectrons(defect) ==
    C5_Oxidation(call.oxidation_states, C5_SubstitutingSpecies(defect))
        - C5_Oxidation(call.oxidation_states, C5_SiteSpecies(defect))
\* a vacancy that removes a +2 cation
CationVacancy(defect) ==
    defect.defect_type = "vacancy" /\ call.oxidation_states[defect.site_specie] = 2

\* C3 (as stated): the neighbour count used for charge q is
\* octet(extra_electrons + q); a vacancy of a +2 cation gets 2 neighbours for
\* charge 0 and 3 neighbours for charge -1.
C3_AsStated ==
    (Done /\ IsNone(call.dict_number_electrons_user)) =>
        \A n \in DOMAIN Supplied : \A m \in DOMAIN Supplied[n].charges :
            LET defect == Supplied[n]
                q == defect.charges[m]
            IN  /\ Recorded(defect, q).num_nearest_neighbours
                       = Octet(ExtraElectrons(defect) + q)
                /\ (CationVacancy(defect) /\ q = 0) =>
                       Recorded(defect, q).num_nearest_neighbours = 2
                /\ (CationVacancy(defect) /\ q = -1) =>
                       Recorded(defect, q).num_nearest_neighbours = 3

\* C3 (amended): the neighbour count used for charge q is
\* octet(q - extra_electrons), extra_electrons = oxidation(substituting
\* species) - oxidation(site species); a vacancy of a +2 cation
\* (extra_electrons = -2) gets 2 neighbours for charge 0 and 1 for charge -1.
C3_OctetOfChargeMinusExtra ==
    (Done /\ IsNone(call.dict_number_electrons_user)) =>
        \A n \in DOMAIN Supplied : \A m \in DOMAIN Supplied[n].charges :
            LET defect == Supplied[n]
                q == defect.charges[m]
            IN  /\ Recorded(defect, q).num_nearest_neighbours
                       = Octet(q - ExtraElectrons(defect))
                /\ CationVacancy(defect) => ExtraElectrons(defect) = -2
                /\ (CationVacancy(defect) /\ q = 0) =>
                       Recorded(defect, q).num_nearest_neighbours = 2
                /\ (CationVacancy(defect) /\ q = -1) =>
                       Recorded(defect, q).num_nearest_neighbours = 1

\* a Cd vacancy has been swept through charges 0 and -1: 2 and 1 neighbours
C3_Witness ==
    /\ Done /\ IsNone(call.dict_number_electrons_user)
    /\ Len(Supplied) = 1 /\ Supplied[1].name = "vac_1_Cd"
    /\ Supplied[1].charges = <<0, -1>>
    /\ Recorded(Supplied[1], 0).num_nearest_neighbours = 2
    /\ Recorded(Supplied[1], -1).num_nearest_neighbours = 1

\* c of the claim: the user's value for the defect, else site minus substituting
C4_Count(defect) ==
    IF Truthy(call.dict_number_electrons_user)
    THEN Get(call.dict_number_electrons_user)[defect.name]
    ELSE -ExtraElectrons(defect)

\* C4: the neighbour count for charge q is calc_number_neighbours(c + q), c
\* being what calc_number_electrons returns for the defect or the value given
\* for it in dict_number_electrons_user; a Cd vacancy in CdTe (c = 2) gets
\* 2, 1, 0 neighbours for q = 0, -1, -2.
C4_NeighboursOfCountPlusCharge ==
    Done =>
        \A n \in DOMAIN Supplied : \A m \in DOMAIN Supplied[n].charges :
            LET defect == Supplied[n]
                q == defect.charges[m]
            IN  /\ Recorded(defect, q).num_nearest_neighbours
                       = Octet(C4_Count(defect) + q)
                /\ (defect.name = "vac_1_Cd" /\ IsNone(call.dict_number_electrons_user)
                        /\ q \in {0, -1, -2}) =>
                       /\ C4_Count(defect) = 2
                       /\ Recorded(defect, q).num_nearest_neighbours = 2 + q

\* a defect whose count the user gave as 3 has been swept at charge -2: 1 neighbour
C4_Witness ==
    /\ Done /\ Truthy(call.dict_number_electrons_user)
    /\ Len(Supplied) = 1 /\ Supplied[1].name = "vac_2_Te" /\ Supplied[1].charges = <<-2>>
    /\ Recorded(Supplied[1], -2).num_nearest_neighbours = 1

\* what the result holds for a defect and one of its charges
C7_Structures(defect, charge) ==
    Get(Val(Val(Get(ret).value[1], defect.name).charges, charge)).structures

\* C7: for every defect and every one of its charge states the result of
\* apply_distortions holds an 'Unperturbed' structure equal to the supercell
\* structure that was supplied, untouched by the distortions of the other entries.
C7_UnperturbedIsSupplied ==
    Done =>
        \A n \in DOMAIN Supplied : \A m \in DOMAIN Supplied[n].charges :
            /\ C7_Structures(Supplied[n], Supplied[n].charges[m]).Unperturbed
                   = Supplied[n].supercell.structure
            /\ CombDefs(Get(self).defects_dict, 1) = Supplied

\* a sweep has returned trial structures that all differ from 'Unperturbed'
C7_Witness ==
    /\ Done /\ Len(Supplied) = 3
    /\ \A n \in DOMAIN Supplied : \A m \in DOMAIN Supplied[n].charges :
           LET st == C7_Structures(Supplied[n], Supplied[n].charges[m])
           IN  /\ st.distortions # <<>>
               /\ \A k \in DOMAIN st.distortions : st.distortions[k].v # st.Unperturbed

\* the shortest distance between two different sites of a structure
C24_Shortest(structure) ==
    CHOOSE d \in {EntryDist(structure, e) : e \in {x \in Entries(structure) : x[1] # x[2]}} :
        \A e \in {x \in Entries(structure) : x[1] # x[2]} : d <= EntryDist(structure, e)
\* 1 Angstrom, in units of 0.01 Angstrom
C24_OneAngstrom == 100

\* C24: apply_distortions omits from its result every bond-distortion trial
\* whose structure has a minimum interatomic distance below 1 Angstrom when the
\* structure holds no hydrogen (no structure of the model does), whether or
\* not verbose is set.
C24_ShortTrialsOmitted ==
    Done =>
        \A n \in DOMAIN Supplied : \A m \in DOMAIN Supplied[n].charges :
            LET st == C7_Structures(Supplied[n], Supplied[n].charges[m])
            IN  \A k \in DOMAIN st.distortions :
                    C24_Shortest(st.distortions[k].v) >= C24_OneAngstrom

\* C25: write_vasp_files returns a tuple of two dictionaries, the
\* distorted-defects dictionary holding the structures and the distortion
\* metadata: the pair apply_distortions returns.
C25_ReturnsThePair ==
    (~IsNone(self) /\ sweep.pc = "written") =>
        /\ Get(ret).exc = ""
        /\ Get(ret).value = <<sweep.distorted_defects_dict, Get(self).distortion_metadata>>

\* distorted_elements is given and has no key for the n-th supplied defect
C28_NoKeyFor(n) ==
    /\ Truthy(call.distorted_elements)
    /\ Supplied[n].name \notin DOMAIN Get(call.distorted_elements)
\* the defect loop has run its set-up (lines 857-883) for the n-th defect and
\* the charge loop has not run for it yet
C28_SetUp(n) ==
    /\ sweep.i = n
    /\ \/ sweep.pc = "charge" /\ sweep.j = 1
       \/ sweep.pc = "raised" /\ sweep.j = 0

\* C28: when distorted_elements is given but has no key for a defect's name,
\* _parse_distorted_element does not raise and the sweep proceeds for that
\* defect without an element filter (distorted_element = None).
C28_MissingKeyProceeds ==
    ~IsNone(self) =>
        \A n \in DOMAIN Supplied :
            (C28_NoKeyFor(n) /\ C28_SetUp(n)) =>
                /\ _parse_distorted_element(Supplied[n].name, call.distorted_elements).exc = ""
                /\ ~(sweep.pc = "raised" /\ sweep.exc = "TypeError")
                /\ sweep.pc = "charge" => IsNone(sweep.distorted_element)

\* C30: apply_distortions, through _parse_number_electrons and
\* calc_number_electrons, leaves the caller's oxidation_states mapping
\* unchanged: when it has returned, the mapping the Distortions object shares
\* with the caller has the keys and values it was constructed with.
C30_OxidationStatesUnchanged ==
    Done =>
        /\ DOMAIN Get(self).oxidation_states = DOMAIN call.oxidation_states
        /\ \A e \in DOMAIN call.oxidation_states :
               Get(self).oxidation_states[e] = call.oxidation_states[e]

(***************************************************************************)
(* Properties of the metadata file (checked under SpecMeta)                *)
(***************************************************************************)
\* the (defect, charge) pairs a document or a metadata dict has an entry for
ChargePairs(m) ==
    UNION {{<<m.defects[i].k, m.defects[i].v.charges[j].k.v>> :
               j \in DOMAIN m.defects[i].v.charges} : i \in DOMAIN m.defects}
AfterWrite == ~IsNone(meta) /\ meta.writes > 0

\* C1: every (defect, charge) entry of the old document or of the new
\* metadata is present in the document written afterwards; a charge state
\* that only one side has survives the merge.
C1_NoEntryDropped ==
    (AfterWrite /\ ~IsNone(meta.old)) =>
        (ChargePairs(Get(meta.old)) \cup ChargePairs(Get(meta.supplied)))
            \subseteq ChargePairs(Get(disk.current))

\* the sweep has called calc_number_electrons for the n-th supplied defect
ElectronsCounted(n) ==
    /\ sweep.pc \notin {"idle", "defect"} \/ (sweep.pc = "defect" /\ sweep.i > n)
    /\ sweep.i >= n
    /\ ~Truthy(call.dict_number_electrons_user)
    /\ _parse_distorted_element(Supplied[n].name, call.distorted_elements).exc = ""

\* C15: calc_number_electrons fails with ValueError for every defect kind other
\* than vacancy, interstitial, antisite, substitution, and apply_distortions
\* lets that error reach its caller: it returns nothing and holds no
\* structures for that defect.
C15_UnknownKindRaises ==
    ~IsNone(self) =>
        \A n \in DOMAIN Supplied :
            Supplied[n].defect_type \notin DefectTypes =>
                /\ calc_number_electrons(Supplied[n], Get(self).oxidation_states).exc
                       = "ValueError"
                /\ ElectronsCounted(n) =>
                       /\ sweep.pc = "raised" /\ sweep.exc = "ValueError"
                       /\ IsNone(ret)
                       /\ ~Has(sweep.distorted_defects_dict, Supplied[n].name)

\* a sweep over a defect of kind 'cluster' has raised ValueError
C15_Witness ==
    /\ ~IsNone(self) /\ Len(Supplied) = 1
    /\ Supplied[1].defect_type = "cluster"
    /\ ElectronsCounted(1)
    /\ sweep.pc = "raised" /\ sweep.exc = "ValueError"

\* C16 (as stated): after apply_distortions, whatever oxidation states, user
\* electron counts and charge states were supplied, every recorded
\* num_nearest_neighbours is a non-negative integer <= 8.
C16_AsStated ==
    Done =>
        \A n \in DOMAIN Supplied : \A m \in DOMAIN Supplied[n].charges :
            Recorded(Supplied[n], Supplied[n].charges[m]).num_nearest_neighbours
                \in 0 .. OctetSize

\* C16 (amended): every recorded num_nearest_neighbours is a non-negative
\* integer; it is <= 8 exactly when the count c + q it was computed from has
\* |c + q| <= 16, and it is |c + q| - 8 beyond that.
C16_AtMostEightUpToSixteen ==
    Done =>
        \A n \in DOMAIN Supplied : \A m \in DOMAIN Supplied[n].charges :
            LET defect == Supplied[n]
                q == defect.charges[m]
                recorded == Recorded(defect, q).num_nearest_neighbours
            IN  /\ recorded \in Nat
                /\ recorded <= OctetSize <=> Abs(C4_Count(defect) + q) <= 2 * OctetSize
                /\ Abs(C4_Count(defect) + q) > 2 * OctetSize
                       => recorded = Abs(C4_Count(defect) + q) - OctetSize

\* a sweep with a user count of 17 has recorded 8 neighbours for one charge
\* state and more than 8 for another
C16_Witness ==
    /\ Done /\ Truthy(call.dict_number_electrons_user)
    /\ \E n \in DOMAIN Supplied : \E m, k \in DOMAIN Supplied[n].charges :
           /\ Recorded(Supplied[n], Supplied[n].charges[m]).num_nearest_neighbours = OctetSize
           /\ Recorded(Supplied[n], Supplied[n].charges[k]).num_nearest_neighbours > OctetSize

\* the Distortions object was built from distortion_increment alone
FromIncrement == ~IsNone(self) /\ ~Truthy(call.bond_distortions)
Ascending(bd) == \A i \in 1 .. (Len(bd) - 1) : Signed(bd[i]) < Signed(bd[i + 1])
Symmetric(bd) == \A i \in DOMAIN bd : Signed(bd[i]) = -Signed(bd[Len(bd) + 1 - i])
ZeroOnce(bd) ==
    /\ Cardinality({i \in DOMAIN bd : bd[i].mag = 0}) = 1
    /\ \A i \in DOMAIN bd : bd[i].mag = 0 => ~bd[i].neg

\* C18: the set built from distortion_increment is sorted
\* ascending, symmetric under negation, contains zero exactly once (as
\* positive zero), has every magnitude <= 0.6 and consecutive elements
\* differing by the increment; 0.25 gives [-0.5, -0.25, 0.0, 0.25, 0.5].
C18_SymmetricUpToSixTenths ==
    FromIncrement =>
        LET bd == Get(self).bond_distortions
        IN  /\ Ascending(bd) /\ Symmetric(bd) /\ ZeroOnce(bd)
            /\ \A i \in DOMAIN bd : bd[i].mag <= 6000
            /\ \A i \in 1 .. (Len(bd) - 1) :
                   Signed(bd[i + 1]) - Signed(bd[i]) = call.distortion_increment
            /\ call.distortion_increment = 2500 =>
                   bd = <<Float(TRUE, 5000), Float(TRUE, 2500), Float(FALSE, 0),
                          Float(FALSE, 2500), Float(FALSE, 5000)>>

(***************************************************************************)
(* Properties of write_vasp_files (checked under Spec)                     *)
(***************************************************************************)
FilesWritten == ~IsNone(self) /\ sweep.pc = "written"
\* the folders written under '<defect>_<charge>'
FoldersUnder(defect_name, charge) ==
    {f \in disk.folders : f.path[1] = FolderName(defect_name, charge)}
FolderLabels(defect_name, charge) ==
    {f.path[2] : f \in FoldersUnder(defect_name, charge)}

\* the structures apply_distortions stored for a defect and charge
StructuresOf(defect, charge) ==
    Get(Val(Val(sweep.distorted_defects_dict, defect.name).charges, charge)).structures

\* C11: for every defect and charge state q, whatever the order of the charge
\* states, the folders write_vasp_files leaves under '<defect>_<q>' are
\* 'Unperturbed' plus the labels of that charge state's own distortions, each
\* written with charge q; zero distorted neighbours give only 'Unperturbed'
\* and 'Rattled', a nonzero count gives no 'Rattled'.
C11_FoldersOfOwnCharge ==
    FilesWritten =>
        \A n \in DOMAIN Supplied : \A m \in DOMAIN Supplied[n].charges :
            LET defect == Supplied[n]
                q == defect.charges[m]
                labels == FolderLabels(defect.name, q)
            IN  /\ labels = {Label("Unperturbed")}
                                \cup Keys(StructuresOf(defect, q).distortions)
                /\ \A f \in FoldersUnder(defect.name, q) : f.charge = q
                /\ Recorded(defect, q).num_nearest_neighbours = 0
                       => labels = {Label("Unperturbed"), Label("Rattled")}
                /\ Recorded(defect, q).num_nearest_neighbours # 0
                       => Label("Rattled") \notin labels

\* the documents held by the files of output_path
OnDisk ==
    {Get(f) : f \in ({disk.current} \cup {disk.backups[t] : t \in DOMAIN disk.backups})
                        \ {None}}

\* C12: a file found at the target path is renamed to the dated copy before
\* the new document is written, and no earlier version is overwritten: after
\* any sequence of writes, several within one minute included, every document
\* that was ever at the path is still the content of some file.
C12_EveryVersionKept ==
    AfterWrite =>
        /\ ~IsNone(meta.old) => \E t \in DOMAIN disk.backups : disk.backups[t] = meta.old
        /\ meta.versions \subseteq OnDisk

\* the values of a list of bond distortions
Values(bond_distortions) == {Signed(bond_distortions[i]) : i \in DOMAIN bond_distortions}
\* the entry a document holds for a defect and a charge, whatever the type of the key
EntriesOf(m, defect_name, charge) ==
    IF Has(m.defects, defect_name)
    THEN LET charges == Val(m.defects, defect_name).charges
         IN  [i \in {j \in DOMAIN charges : charges[j].k.v = charge} |-> charges[i].v]
    ELSE <<>>
\* the (defect, charge) pairs of the old document and the new metadata alike
InBoth ==
    {p \in UNION {{<<Get(meta.supplied).defects[d].k,
                     Get(meta.supplied).defects[d].v.charges[c].k.v>> :
                       c \in DOMAIN Get(meta.supplied).defects[d].v.charges} :
                  d \in DOMAIN Get(meta.supplied).defects} :
        DOMAIN EntriesOf(Get(meta.old), p[1], p[2]) # {}}
MeshOf(m, p) ==
    LET e == EntriesOf(m, p[1], p[2])
    IN  e[CHOOSE i \in DOMAIN e : TRUE].distortion_parameters.bond_distortions

\* C13: writing twice for the same defect and charge with identical
\* bond-distortion sets, the second write merging with the JSON document the
\* first left, gives a document in which that charge appears exactly once and
\* its bond_distortions are the union of the two sets, no value duplicated.
C13_UnionWithoutDuplicates ==
    (AfterWrite /\ ~IsNone(meta.old)) =>
        \A p \in InBoth :
            Values(MeshOf(Get(meta.supplied), p)) = Values(MeshOf(Get(meta.old), p)) =>
                /\ Cardinality(DOMAIN EntriesOf(Get(disk.current), p[1], p[2])) = 1
                /\ Values(MeshOf(Get(disk.current), p))
                       = Values(MeshOf(Get(meta.supplied), p))
                             \cup Values(MeshOf(Get(meta.old), p))
                /\ Len(MeshOf(Get(disk.current), p))
                       = Cardinality(Values(MeshOf(Get(disk.current), p)))

\* the warning of lines 133-138 was emitted for the pair p
ConflictWarned(p) ==
    \E i \in DOMAIN meta.warnings :
        /\ meta.warnings[i].kind = "different"
        /\ meta.warnings[i].x = p[1]
        /\ meta.warnings[i].y.v = p[2]
EntryOf(m, p) ==
    LET e == EntriesOf(m, p[1], p[2]) IN e[CHOOSE i \in DOMAIN e : TRUE]

\* C14: when the old document and the new metadata both have an entry for a
\* defect and charge, with different bond-distortion sets, a conflict warning
\* is emitted and the written document holds the new run's entry.
C14_ConflictWarnedNewKept ==
    (AfterWrite /\ ~IsNone(meta.old)) =>
        \A p \in InBoth :
            Values(MeshOf(Get(meta.supplied), p)) # Values(MeshOf(Get(meta.old), p)) =>
                /\ ConflictWarned(p)
                /\ EntryOf(Get(disk.current), p) = JsonEntry(EntryOf(Get(meta.supplied), p))

\* C26: every defect of the old document that the new metadata does not hold
\* is in the written document with its old entry, whatever other defects the two
\* share and in whatever order the old document lists them.
C26_OldOnlyDefectsKept ==
    (AfterWrite /\ ~IsNone(meta.old)) =>
        \A i \in DOMAIN Get(meta.old).defects :
            LET d == Get(meta.old).defects[i]
            IN  ~Has(Get(meta.supplied).defects, d.k) =>
                    /\ Has(Get(disk.current).defects, d.k)
                    /\ Val(Get(disk.current).defects, d.k) = d.v

\* the metadata handed in has the integer charge keys of apply_distortions
C27_FromSweep ==
    \A i \in DOMAIN Get(meta.supplied).defects :
        \A j \in DOMAIN Get(meta.supplied).defects[i].v.charges :
            Get(meta.supplied).defects[i].v.charges[j].k.t = "int"
\* the fallback of lines 148-152 was taken
C27_Problem == \E w \in Range(meta.warnings) : w.kind = "problem"

\* C27: when the existing file was written by _write_distortion_metadata and
\* the new metadata comes from apply_distortions (integer charge keys), a
\* charge state that both runs hold is recognised as the same charge and the
\* merge completes without the 'problem when combining' fallback; stated for
\* runs in which every charge state of the new metadata is in the old document.
C27_SameChargeRecognised ==
    ( /\ AfterWrite /\ ~IsNone(meta.old)
      /\ C27_FromSweep
      /\ ChargePairs(Get(meta.supplied)) # {}
      /\ ChargePairs(Get(meta.supplied)) \subseteq ChargePairs(Get(meta.old)) )
        => ~C27_Problem

\* C29: when the old document and the new metadata hold equal entries for a
\* defect and charge, the merge changes only the bond_distortions list of that
\* entry: its num_nearest_neighbours, distorted_atoms and rattle_stdev in the
\* written document are those of the new metadata.
C29_OnlyTheMeshChanges ==
    (AfterWrite /\ ~IsNone(meta.old)) =>
        \A p \in InBoth :
            JsonEntry(EntryOf(Get(meta.supplied), p)) = EntryOf(Get(meta.old), p) =>
                LET new == JsonEntry(EntryOf(Get(meta.supplied), p))
                    written == EntryOf(Get(disk.current), p)
                IN  /\ written.num_nearest_neighbours = new.num_nearest_neighbours
                    /\ written.distorted_atoms = new.distorted_atoms
                    /\ written.distortion_parameters.rattle_stdev
                           = new.distortion_parameters.rattle_stdev

====
